---------------------------- MODULE Spec2Model ----------------------------
(***************************************************************************)
(* A model of the dependency-graph evaluation kernel of desilike           *)
(* (desilike/base.py): InitConfig, RuntimeInfo, BasePipeline.              *)
(*                                                                         *)
(* Calculators are the integers 1..NCalc.  A calculator may only hold      *)
(* calculators of smaller index, so every requires graph is acyclic.       *)
(* The methods of base.py are operators that take the state of all the     *)
(* calculators (a record "w", one field per attribute, each a function of  *)
(* the calculator) and return the state after the call.                    *)
(***************************************************************************)
EXTENDS Integers, Sequences, FiniteSets, TLC

NCalc == 4
Calcs == 1 .. NCalc

VARIABLES
    cfgCalcs,     \* InitConfig keyed options that are calculators (template=, pt=, ...), in order
    touch,        \* the calculators whose InitConfig the initialization hook updates
    explicit,     \* TRUE: the hook assigns runtime_info.requires itself (EnsembleCalculator)
    paramEdit,    \* what the hook does with self.params: "none", "fix" or "select"
    cfgArgs,      \* InitConfig._args
    cfgData,      \* InitConfig.data: the keyed options, << key, value >> in insertion order
    updated,      \* InitConfig._updated
    initParams,   \* InitConfig._params: the calculator's parameter template
    heldZ,        \* calculator.z: the option "z" the initialization hook was last given
    held,         \* calculator.__dict__: the BaseCalculator attributes, in insertion order
    initialized,  \* RuntimeInfo._initialized
    reqKnown,     \* RuntimeInfo._requires is not None
    requires,     \* RuntimeInfo._requires
    required_by,  \* RuntimeInfo.required_by
    tocalc,       \* RuntimeInfo._tocalculate
    calculated,   \* RuntimeInfo.calculated
    rparams,      \* RuntimeInfo._params: the calculator's parameter collection
    pvals,        \* RuntimeInfo.param_values: the cached input values, by name
    dcache,       \* RuntimeInfo._derived: << >> (None) or << the derived outputs, by name >>
    speed,        \* RuntimeInfo.speed, as the cost 1 / speed (0: None)
    pipeline,     \* RuntimeInfo._pipeline (built = FALSE: None)
    nupd,         \* the number of configuration changes made from outside so far
    ncall,        \* the number of calls with parameter values made so far
    err,          \* the exception the last operation raised ("" = none)
    cause,        \* the __cause__ of that exception ("" = none)
    log,          \* the hooks run by the last operation, in order
    mpi,          \* mpicalculate: the participants' arrays, positions and labelled results
    sched,        \* what the last block_params computed and returned
    ran,          \* the values each calculator's calculation hook last ran with (<< >>: never ran)
    op            \* the last operation

vars == << cfgCalcs, touch, explicit, paramEdit, cfgArgs, cfgData, updated, initParams, heldZ, held, initialized,
           reqKnown, requires, required_by, tocalc, calculated, rparams, pvals, dcache, speed,
           pipeline, nupd, ncall, err, cause, log, op, mpi, sched, ran >>

-----------------------------------------------------------------------------
(* Sequences *)

RECURSIVE SeqOfSet(_)
SeqOfSet(S) == IF S = {} THEN << >>
               ELSE LET x == CHOOSE y \in S : \A z \in S : y <= z
                    IN  << x >> \o SeqOfSet(S \ {x})

Range(s) == { s[i] : i \in 1 .. Len(s) }

Reverse(s) == [ i \in 1 .. Len(s) |-> s[Len(s) + 1 - i] ]

IndexOf(s, x) == CHOOSE i \in 1 .. Len(s) : s[i] = x /\ \A j \in 1 .. (i - 1) : s[j] # x

\* the walk without the removal of the earlier instance
DelNone(s, x) == s

\* del s[s.index(x)]
DelFirst(s, x) == LET i == IndexOf(s, x)
                  IN  [ j \in 1 .. (Len(s) - 1) |-> IF j < i THEN s[j] ELSE s[j + 1] ]

\* the sequences without repetition over the set S
RECURSIVE Perms(_)
Perms(S) == IF S = {} THEN { << >> }
            ELSE UNION { { << x >> \o p : p \in Perms(S \ {x}) } : x \in S }

Arrangements(S) == UNION { Perms(T) : T \in SUBSET S }

-----------------------------------------------------------------------------
(* The state of the calculators as one record *)

\* no mpicalculate is under way
NoBatch == [ phase |-> "none" ]

\* block_params was not called
NoSchedule == [ kind |-> "none" ]

\* RuntimeInfo._pipeline is None; derived: a calculate() has set BasePipeline.derived,
\* outputs: the entries of BasePipeline.derived, by name
NoPipeline == [ built |-> FALSE, calculators |-> << >>, params |-> << >>, stale |-> FALSE,
                varied |-> << >>, param_values |-> << >>, derived |-> FALSE,
                outputs |-> << >> ]

World == [ cfgArgs |-> cfgArgs, cfgData |-> cfgData, updated |-> updated, initParams |-> initParams,
           heldZ |-> heldZ, held |-> held,
           initialized |-> initialized, reqKnown |-> reqKnown, requires |-> requires,
           required_by |-> required_by, tocalc |-> tocalc, calculated |-> calculated,
           rparams |-> rparams, pvals |-> pvals, dcache |-> dcache, speed |-> speed,
           pipeline |-> pipeline, sched |-> sched, mpi |-> mpi, err |-> "", cause |-> "",
           log |-> << >>, outs |-> << >> ]

\* the values of the last execution of each calculator, after the hooks of the log l
LastRan(r, l) ==
    [ c \in Calcs |->
        IF \E i \in 1 .. Len(l) : l[i].kind = "calc" /\ l[i].c = c
        THEN << l[CHOOSE i \in 1 .. Len(l) :
                    /\ l[i].kind = "calc" /\ l[i].c = c
                    /\ \A j \in (i + 1) .. Len(l) : ~(l[j].kind = "calc" /\ l[j].c = c)].vals >>
        ELSE r[c] ]

Commit(w) ==
    /\ cfgArgs' = w.cfgArgs
    /\ cfgData' = w.cfgData
    /\ updated' = w.updated
    /\ initParams' = w.initParams
    /\ heldZ' = w.heldZ
    /\ held' = w.held
    /\ initialized' = w.initialized
    /\ reqKnown' = w.reqKnown
    /\ requires' = w.requires
    /\ required_by' = w.required_by
    /\ tocalc' = w.tocalc
    /\ calculated' = w.calculated
    /\ rparams' = w.rparams
    /\ pvals' = w.pvals
    /\ dcache' = w.dcache
    /\ speed' = w.speed
    /\ pipeline' = w.pipeline
    /\ err' = w.err
    /\ cause' = w.cause
    /\ sched' = w.sched
    /\ log' = w.log
    /\ mpi' = w.mpi
    /\ ran' = LastRan(ran, w.log)
    /\ UNCHANGED << cfgCalcs, touch, explicit, paramEdit >>

-----------------------------------------------------------------------------
(* Parameters and parameter collections.  A parameter is a record; a       *)
(* collection is a function from the names it holds to the parameters.     *)

\* Python numbers: 1 == 1.0 holds although the types differ
IntV(v) == [ ty |-> "int", v |-> v ]
FloatV(v) == [ ty |-> "float", v |-> v ]

Param(name, value, prior, fixed, derived, depends) ==
    [ name |-> name, value |-> value, prior |-> prior, fixed |-> fixed, derived |-> derived,
      depends |-> depends ]

\* ParameterCollection.set, for all the parameters of g
Merge(f, g) == [ n \in (DOMAIN f) \cup (DOMAIN g) |-> IF n \in DOMAIN g THEN g[n] ELSE f[n] ]

Restrict(f, S) == [ n \in S |-> f[n] ]

\* ParameterCollectionConfig(coll).clone(override): a same-named entry of override replaces the definition
Clone(coll, override) ==
    [ n \in DOMAIN coll |-> IF n \in DOMAIN override THEN override[n] ELSE coll[n] ]

\* any(param.name in p.depends.values() for p in coll)
Referenced(n, coll) == \E q \in DOMAIN coll : n \in coll[q].depends

\* ParameterCollection.select(varied=True, derived=False)
SelectVaried(coll) == Restrict(coll, { n \in DOMAIN coll : ~coll[n].fixed /\ ~coll[n].derived })

\* RuntimeInfo.varied_params: the parameters that are inputs of the calculator
Inputs(coll) == { n \in DOMAIN coll : coll[n].depends # {} \/ ~coll[n].derived }

\* RuntimeInfo.params = coll
SetRuntimeParams(w, c, coll) ==
    [ w EXCEPT !.rparams[c] = coll,
               !.pvals[c] = [ n \in Inputs(coll) |-> coll[n].value ] ]

-----------------------------------------------------------------------------
(* RuntimeInfo.initialized, InitConfig.updated *)

RECURSIVE SetInitializedFalse(_, _), CascadeFalse(_, _)

\* RuntimeInfo.initialized = False
SetInitializedFalse(w, c) ==
    LET w1 == [ w EXCEPT !.initialized[c] = FALSE, !.pipeline[c] = NoPipeline ]
    IN  CascadeFalse(w1, SeqOfSet(w1.required_by[c]))

\* for calculator in self.required_by: calculator.runtime_info.initialized = False
CascadeFalse(w, s) ==
    IF s = << >> THEN w
    ELSE CascadeFalse(SetInitializedFalse(w, Head(s)), Tail(s))

\* the end of initialize without self.initialized = True
SetInitializedNever(w, c) == w

\* RuntimeInfo.initialized = True
SetInitializedTrue(w, c) == [ w EXCEPT !.initialized[c] = TRUE, !.updated[c] = FALSE ]

\* the flag set without the assignment to runtime_info.initialized
SetUpdatedOnly(w, c) == [ w EXCEPT !.updated[c] = TRUE ]

\* InitConfig.updated = True; RuntimeInfo.__init__ has attached every InitConfig
SetUpdated(w, c) == SetInitializedFalse([ w EXCEPT !.updated[c] = TRUE ], c)

-----------------------------------------------------------------------------
(* InitConfig: the keyed options are a dictionary, here the sequence of its *)
(* << key, value >> items in insertion order                                 *)

HasKey(d, k) == \E i \in 1 .. Len(d) : d[i][1] = k

\* dict.get(k, 0)
Get(d, k) == IF HasKey(d, k) THEN d[CHOOSE i \in 1 .. Len(d) : d[i][1] = k][2] ELSE 0

\* d[k] = v
DictSet(d, k, v) ==
    IF HasKey(d, k) THEN [ i \in 1 .. Len(d) |-> IF d[i][1] = k THEN << k, v >> ELSE d[i] ]
    ELSE Append(d, << k, v >>)

\* del d[k]
DictDel(d, k) == SelectSeq(d, LAMBDA item : item[1] # k)

\* a wrapper that calls the dictionary method only
WrappedPlain(w, c) == w

\* the wrapper of _make_wrapper: self.updated = True, then the dictionary method
Wrapped(w, c) == SetUpdated(w, c)

KeyError(w) == [ w EXCEPT !.err = "KeyError" ]

\* InitConfig.__setitem__, InitConfig.update(k=v)
ConfigSetItem(w, c, k, v) == [ Wrapped(w, c) EXCEPT !.cfgData[c] = DictSet(@, k, v) ]
ConfigUpdate(w, c, k, v) == [ Wrapped(w, c) EXCEPT !.cfgData[c] = DictSet(@, k, v) ]

\* InitConfig.__delitem__, InitConfig.pop(k)
ConfigDelItem(w, c, k) ==
    LET w1 == Wrapped(w, c)
    IN  IF HasKey(w1.cfgData[c], k) THEN [ w1 EXCEPT !.cfgData[c] = DictDel(@, k) ]
        ELSE KeyError(w1)
ConfigPop(w, c, k) ==
    LET w1 == Wrapped(w, c)
    IN  IF HasKey(w1.cfgData[c], k) THEN [ w1 EXCEPT !.cfgData[c] = DictDel(@, k) ]
        ELSE KeyError(w1)

\* InitConfig.popitem()
ConfigPopItem(w, c) ==
    LET w1 == Wrapped(w, c)
    IN  IF w1.cfgData[c] # << >> THEN [ w1 EXCEPT !.cfgData[c] = SubSeq(@, 1, Len(@) - 1) ]
        ELSE KeyError(w1)

\* InitConfig.setdefault(k, v)
ConfigSetDefault(w, c, k, v) ==
    LET w1 == Wrapped(w, c)
    IN  IF HasKey(w1.cfgData[c], k) THEN w1 ELSE [ w1 EXCEPT !.cfgData[c] = Append(@, << k, v >>) ]

\* InitConfig.clear()
ConfigClear(w, c) == [ Wrapped(w, c) EXCEPT !.cfgData[c] = << >> ]

\* the dictionary lookup without the wrapper
PlainGetItem(w, c, k) == IF HasKey(w.cfgData[c], k) THEN w ELSE KeyError(w)

\* InitConfig.__getitem__
ConfigGetItem(w, c, k) ==
    LET w1 == Wrapped(w, c)
    IN  IF HasKey(w1.cfgData[c], k) THEN w1 ELSE KeyError(w1)

\* InitConfig.args = a
ConfigSetArgs(w, c, a) == SetUpdated([ w EXCEPT !.cfgArgs[c] = a ], c)

\* InitConfig.params = coll
ConfigSetParams(w, c, coll) == SetUpdated([ w EXCEPT !.initParams[c] = coll ], c)


-----------------------------------------------------------------------------
(* RuntimeInfo.clear, initialize, requires; the calculators' initialization hooks *)

\* a clear that resets the flags and the parameters and keeps the other attributes
ClearFlagsOnly(w, c) ==
    SetRuntimeParams(
        [ w EXCEPT !.initialized[c] = FALSE, !.tocalc[c] = TRUE, !.calculated[c] = FALSE ],
        c, w.initParams[c])

\* RuntimeInfo.clear: __dict__.clear() and __init__(calculator, init=init)
Clear(w, c) ==
    SetRuntimeParams(
        [ w EXCEPT !.required_by[c] = {}, !.reqKnown[c] = FALSE, !.requires[c] = << >>,
                   !.pipeline[c] = NoPipeline, !.initialized[c] = FALSE, !.dcache[c] = << >>,
                   !.speed[c] = 0,
                   !.tocalc[c] = TRUE, !.calculated[c] = FALSE ],
        c, w.initParams[c])

\* an entry of the log: a hook that ran, with the configuration or the values it ran with
Event(kind, c, z, vals) == [ kind |-> kind, c |-> c, z |-> z, vals |-> vals ]

\* self.template.init.update(k=kin) in the hook of the holder c
RECURSIVE TouchAll(_, _, _)
TouchAll(w, c, s) ==
    IF s = << >> THEN w
    ELSE TouchAll(IF Head(s) \in touch[c] THEN ConfigUpdate(w, Head(s), "k", 1) ELSE w,
                  c, Tail(s))

RECURSIVE Initialize(_, _), SetRequires(_, _, _), SetRequiresLoop(_, _, _), HookBody(_, _),
          Hook(_, _), InitializeAll(_, _)

\* [obs.runtime_info.initialize() for obs in observables]
InitializeAll(w, s) ==
    IF s = << >> THEN w ELSE InitializeAll(Initialize(w, Head(s)), Tail(s))

\* the hook receives **self.init and keeps the option "z"
Receive(w, c) ==
    [ w EXCEPT !.heldZ[c] = Get(w.cfgData[c], "z"),
               !.log = Append(@, Event("init", c, Get(w.cfgData[c], "z"), << >>)) ]

\* the body of calculator.initialize
HookBody(w, c) ==
    IF explicit[c]
    THEN \* ObservablesGaussianLikelihood, SumLikelihood, EnsembleCalculator
         SetRequires(InitializeAll([ Receive(w, c) EXCEPT !.held[c] = << >> ], cfgCalcs[c]),
                     c, cfgCalcs[c])
    ELSE \* full_shape.py: self.template = template; self.template.init.update(k=kin)
         TouchAll([ Receive(w, c) EXCEPT !.held[c] = cfgCalcs[c] ], c, cfgCalcs[c])

\* self.params[name].update(fixed=True) for every parameter: the collection that
\* init.params holds at the time is edited in place
FixParams(w, c) ==
    [ w EXCEPT !.initParams[c] = [ n \in DOMAIN @ |-> [ @[n] EXCEPT !.fixed = TRUE ] ] ]

\* self.params = self.params.select(basename=[...]) with a list that selects nothing:
\* BaseCalculator.params is init.params while the calculator is not initialized
SelectParams(w, c) == ConfigSetParams(w, c, << >>)

\* what the hook does with its parameters, at its end (set_params of full_shape.py)
EditParams(w, c) ==
    IF paramEdit[c] = "fix" THEN FixParams(w, c)
    ELSE IF paramEdit[c] = "select" THEN SelectParams(w, c)
    ELSE w

\* calculator.initialize(*self.init.args, **self.init): **self.init reads every key
\* through the wrapped __getitem__
Hook(w, c) == EditParams(HookBody(IF w.cfgData[c] = << >> THEN w ELSE Wrapped(w, c), c), c)

\* self.params = self.init.params
InstallParams(w, c) == SetRuntimeParams(w, c, w.initParams[c])

\* the end of initialize without self.init.params = bak: the collection the hook has
\* worked on stays in the InitConfig
RestoreNone(w, c, bak) == w

\* self.init.params = bak
RestoreParams(w, c, bak) == ConfigSetParams(w, c, bak)

\* RuntimeInfo.initialize
Initialize(w, c) ==
    IF w.initialized[c] THEN w
    ELSE LET w1 == Clear(w, c)
             w2 == SetUpdated(w1, c)     \* self.init.params = ...deepcopy()
             w3 == Hook(w2, c)
             w4 == InstallParams(w3, c)
             w5 == RestoreParams(w4, c, w.initParams[c])   \* bak: clear() keeps the InitConfig
         IN  SetInitializedTrue(w5, c)

\* the body of the loop of the requires setter
SetRequiresLoop(w, c, s) ==
    IF s = << >> THEN w
    ELSE LET r  == Head(s)
             w1 == Initialize(w, r)
             w2 == [ w1 EXCEPT !.required_by[r] = @ \cup {c} ]
         IN  SetRequiresLoop(w2, c, Tail(s))

\* RuntimeInfo.requires = l
SetRequires(w, c, l) ==
    LET w1 == [ w EXCEPT !.requires[c] = l, !.reqKnown[c] = TRUE ]
        w2 == SetRequiresLoop(w1, c, l)
    IN  [ w2 EXCEPT !.pipeline[c] = NoPipeline ]

\* RuntimeInfo.requires (the getter): discovers the calculators held in __dict__
GetRequires(w, c) == IF w.reqKnown[c] THEN w ELSE SetRequires(w, c, w.held[c])

-----------------------------------------------------------------------------
(* BasePipeline._set_params: the unification of the calculators' parameters *)

RECURSIVE UnifyLoop(_, _, _, _)

\* the loop over self.calculators, without the comparison with new_params
UnifyLoopLenient(w, s, new, override) ==
    IF s = << >> THEN [ w |-> w, new |-> new, ok |-> TRUE ]
    ELSE UnifyLoop(SetRuntimeParams(w, Head(s), Clone(w.rparams[Head(s)], override)), Tail(s),
                   Merge(new, Clone(w.rparams[Head(s)], override)), override)

\* the loop over self.calculators; new is new_params
UnifyLoop(w, s, new, override) ==
    IF s = << >> THEN [ w |-> w, new |-> new, ok |-> TRUE ]
    ELSE LET c   == Head(s)
             rp  == w.rparams[c]
             cl  == Clone(rp, override)
             bad == \E n \in DOMAIN rp :
                        /\ n \in DOMAIN new
                        /\ ~(cl[n].derived /\ cl[n].fixed)
                        /\ cl[n] # new[n]
         IN  IF bad THEN [ w |-> w, new |-> new, ok |-> FALSE ]
             ELSE UnifyLoop(SetRuntimeParams(w, c, cl), Tail(s), Merge(new, cl), override)

\* the loop over the override without its raise: names nobody declares or references
\* are dropped
AttributeLoopLenient(new, override, s) == [ new |-> new, ok |-> TRUE ]

\* for param in ParameterCollection(params): s lists the names of the override
RECURSIVE AttributeLoop(_, _, _)
AttributeLoop(new, override, s) ==
    IF s = << >> THEN [ new |-> new, ok |-> TRUE ]
    ELSE LET n    == Head(s)
             new1 == IF Referenced(n, new) THEN Merge(new, Restrict(override, {n})) ELSE new
         IN  IF n \notin DOMAIN new1 THEN [ new |-> new1, ok |-> FALSE ]
             ELSE AttributeLoop(new1, override, Tail(s))

\* the loop over the previous collection without its body: nothing is added back
RetainNone(new, old, s) == new

\* for param in self._params: s lists the names of the previous collection
RECURSIVE RetainLoop(_, _, _)
RetainLoop(new, old, s) ==
    IF s = << >> THEN new
    ELSE LET n == Head(s)
         IN  RetainLoop(IF n \notin DOMAIN new /\ Referenced(n, new)
                        THEN Merge(new, Restrict(old, {n})) ELSE new,
                        old, Tail(s))

\* the end of _set_params without self._varied_params = ...: the cached subset is kept
StoreParamsKeepVaried(w, pl, n) ==
    [ w  |-> w,
      pl |-> [ pl EXCEPT !.params = n, !.stale = FALSE,
                         !.param_values = [ x \in DOMAIN n |-> n[x].value ],
                         !.derived = FALSE, !.outputs = << >> ] ]

\* self._params = new_params, self._varied_params, self.param_values, self.derived = None
StoreParams(w, pl, n) ==
    [ w  |-> w,
      pl |-> [ pl EXCEPT !.params = n, !.stale = FALSE, !.varied = SelectVaried(n),
                         !.param_values = [ x \in DOMAIN n |-> n[x].value ],
                         !.derived = FALSE, !.outputs = << >> ] ]

\* _set_params, after the loop over the override: a |-> the outcome of that loop
Retain(w, pl, a) ==
    IF ~a.ok THEN [ w |-> [ w EXCEPT !.err = "PipelineError" ], pl |-> pl ]
    ELSE StoreParams(w, pl, RetainLoop(a.new, pl.params, SeqOfSet(DOMAIN pl.params)))

\* _set_params, after the loop over the calculators: u |-> the outcome of that loop
Attribute(u, pl, override) ==
    IF ~u.ok THEN [ w |-> [ u.w EXCEPT !.err = "PipelineError" ], pl |-> pl ]
    ELSE Retain(u.w, pl, AttributeLoop(u.new, override, SeqOfSet(DOMAIN override)))

\* BasePipeline._set_params(params=override) on the pipeline object pl
SetParams(w, pl, override) ==
    Attribute(UnifyLoop(w, pl.calculators, << >>, override), pl, override)

\* BasePipeline.params (the getter)
GetParams(w, pl) == IF pl.stale THEN SetParams(w, pl, pl.params) ELSE [ w |-> w, pl |-> pl ]

-----------------------------------------------------------------------------
(* BasePipeline.__init__ *)

RECURSIVE Callback(_, _, _), CallbackLoop(_, _, _)

\* for require in calculator.runtime_info.requires
Descend(w, l, c) == CallbackLoop(w, l, w.requires[c])

\* callback(calculator) of BasePipeline.__init__; l is self.calculators
Callback(w, l, c) == Descend(GetRequires(Initialize(w, c), c), Append(l, c), c)

\* the rest of the requires, after callback(require) has returned res
Continue(res, s) == CallbackLoop(res.w, res.l, s)

\* if require in self.calculators: del self.calculators[self.calculators.index(require)]
CallbackLoop(w, l, s) ==
    IF s = << >> THEN [ w |-> w, l |-> l ]
    ELSE Continue(Callback(w, IF Head(s) \in Range(l) THEN DelFirst(l, Head(s)) ELSE l, Head(s)),
                  Tail(s))

\* the construction without that loop: the calculators stay as the walk left them
MarkNone(w, s) == w

\* for calculator in self.calculators: calculator.runtime_info.initialized = True
RECURSIVE MarkInitialized(_, _)
MarkInitialized(w, s) ==
    IF s = << >> THEN w ELSE MarkInitialized(SetInitializedTrue(w, Head(s)), Tail(s))

\* the list of the walk, not reversed
FlattenKept(l) == l

\* self.calculators = self.calculators[::-1]
Flatten(l) == Reverse(l)

\* the construction without that loop: the dirty flags are left as they are
SetNoneToCalculate(w, l) == w

\* for calculator in self.calculators: calculator.runtime_info.tocalculate = True
SetAllToCalculate(w, l) ==
    [ w EXCEPT !.tocalc = [ c \in Calcs |-> IF c \in Range(l) THEN TRUE ELSE @[c] ] ]

\* BasePipeline.__init__ after the walk: res |-> the state and the list the walk left
AfterWalk(res) ==
    SetParams(SetAllToCalculate(MarkInitialized(res.w, res.l), res.l),
              [ NoPipeline EXCEPT !.built = TRUE, !.calculators = Flatten(res.l) ], << >>)

\* BasePipeline(calculator)
NewPipeline(w, root) == AfterWalk(Callback(w, << >>, root))

\* self._pipeline = BasePipeline(self.calculator): a constructor that raises leaves it None
Install(r, root) == IF r.w.err # "" THEN r.w ELSE [ r.w EXCEPT !.pipeline[root] = r.pl ]

\* RuntimeInfo.pipeline
GetPipeline(w, root) ==
    IF w.pipeline[root].built THEN w ELSE Install(NewPipeline(w, root), root)

-----------------------------------------------------------------------------
(* RuntimeInfo.set_param_values, RuntimeInfo.calculate, BasePipeline.calculate *)

\* type(cached) is not type(value) or cached != value
Differs(a, b) == a.ty # b.ty \/ a.v # b.v

\* set_param_values that marks the calculator whatever the values
SetParamValuesAlways(w, c, values) ==
    LET names == (DOMAIN values) \cap (DOMAIN w.pvals[c])
    IN  [ w EXCEPT !.tocalc[c] = TRUE,
                   !.pvals[c] = [ n \in DOMAIN @ |-> IF n \in names THEN values[n] ELSE @[n] ] ]

\* RuntimeInfo.set_param_values(values, full=True)
SetParamValues(w, c, values) ==
    LET names   == (DOMAIN values) \cap (DOMAIN w.pvals[c])
        changed == \E n \in names : Differs(w.pvals[c][n], values[n])
    IN  [ w EXCEPT !.tocalc[c] = (@ \/ changed),
                   !.pvals[c] = [ n \in DOMAIN @ |-> IF n \in names THEN values[n] ELSE @[n] ] ]

\* RuntimeInfo.set_param_values(values, force=force), force not None: the flag is
\* assigned once for each supplied name that the calculator holds a value for
SetParamValuesForce(w, c, values, force) ==
    LET names == (DOMAIN values) \cap (DOMAIN w.pvals[c])
    IN  [ w EXCEPT !.tocalc[c] = IF names = {} THEN @ ELSE force,
                   !.pvals[c] = [ n \in DOMAIN @ |-> IF n \in names THEN values[n] ELSE @[n] ] ]

\* tocalculate that looks at the own flag only
DueOwn(w, c) == w.tocalc[c]

\* tocalculate that looks at the calculated flag of every calculator
DueAny(w, c) == w.tocalc[c] \/ \E r \in Calcs : w.calculated[r]

\* RuntimeInfo.tocalculate: the requires are read only when the own flag is not set
Due(w, c) == w.tocalc[c] \/ \E r \in Range(w.requires[c]) : w.calculated[r]

\* the requires are read by RuntimeInfo.tocalculate only when the own flag is not set
ReadRequires(w, c) == IF w.tocalc[c] THEN w ELSE GetRequires(w, c)

\* RuntimeInfo.calculate() whose except clause raises without "from exc"
RunIfDueNoCause(w, c, fail) ==
    IF Due(w, c)
    THEN IF c \in fail
         THEN [ w EXCEPT !.err = "PipelineError",
                         !.log = Append(@, Event("raise", c, 0, w.pvals[c])) ]
         ELSE [ w EXCEPT !.calculated[c] = TRUE, !.tocalc[c] = FALSE, !.dcache[c] = << >>,
                         !.log = Append(@, Event("calc", c, 0, w.pvals[c])) ]
    ELSE [ w EXCEPT !.calculated[c] = FALSE, !.tocalc[c] = FALSE ]

\* RuntimeInfo.calculate() that keeps _derived when the hook has run
RunIfDueKeepCache(w, c, fail) ==
    IF Due(w, c)
    THEN IF c \in fail
         THEN [ w EXCEPT !.err = "PipelineError", !.cause = "HookError",
                         !.log = Append(@, Event("raise", c, 0, w.pvals[c])) ]
         ELSE [ w EXCEPT !.calculated[c] = TRUE, !.tocalc[c] = FALSE,
                         !.log = Append(@, Event("calc", c, 0, w.pvals[c])) ]
    ELSE [ w EXCEPT !.calculated[c] = FALSE, !.tocalc[c] = FALSE ]

\* RuntimeInfo.calculate() after self.initialize(); fail: the calculators whose hook raises
RunIfDue(w, c, fail) ==
    IF Due(w, c)
    THEN IF c \in fail
         THEN [ w EXCEPT !.err = "PipelineError", !.cause = "HookError",
                         !.log = Append(@, Event("raise", c, 0, w.pvals[c])) ]
         ELSE [ w EXCEPT !.calculated[c] = TRUE, !.tocalc[c] = FALSE, !.dcache[c] = << >>,
                         !.log = Append(@, Event("calc", c, 0, w.pvals[c])) ]
    ELSE [ w EXCEPT !.calculated[c] = FALSE, !.tocalc[c] = FALSE ]

\* RuntimeInfo.calculate()
RtCalculate(w, c, fail) == RunIfDue(ReadRequires(Initialize(w, c), c), c, fail)

\* the attributes the calculation hook of c has set: the values it last ran with
AttrsOf(w, c) == LastRan(ran, w.log)[c]

\* a derived output: the calculator it is read from (0: the pipeline evaluates it) and
\* what it was computed from
Output(c, vals) == [ by |-> c, vals |-> vals ]

\* self.derived_params: self._params.select(derived=True)
DerivedNames(coll) == { n \in DOMAIN coll : coll[n].derived /\ coll[n].depends = {} }

\* RuntimeInfo.derived: built from the attributes of the calculator when _derived is None
ReadDerived(w, c) ==
    IF w.dcache[c] # << >> THEN w
    ELSE [ w EXCEPT !.dcache[c] =
               << [ n \in DerivedNames(w.rparams[c]) |-> Output(c, AttrsOf(w, c)) ] >> ]

\* an update in which the entries already held are kept
UpdateOutsKeep(w, coll) == [ w EXCEPT !.outs = Merge(coll, @) ]

\* self.derived.update(coll)
UpdateOuts(w, coll) == [ w EXCEPT !.outs = Merge(@, coll) ]

\* self.derived.update(runtime_info.derived)
CollectRead(w, c) == UpdateOuts(w, w.dcache[c][1])
Collect(w, c) == IF w.err # "" THEN w ELSE CollectRead(ReadDerived(w, c), c)

\* for calculator in self.calculators: set_param_values(params, full=True); calculate();
\* self.derived.update(runtime_info.derived)
RECURSIVE CalculateLoop(_, _, _, _)
CalculateLoop(w, s, values, fail) ==
    IF s = << >> \/ w.err # "" THEN w
    ELSE CalculateLoop(Collect(RtCalculate(SetParamValues(w, Head(s), values), Head(s), fail),
                               Head(s)),
                       Tail(s), values, fail)

\* the pipeline object pl stays the root's pipeline unless the call has detached it
Attach(w, root, pl) == IF w.pipeline[root].built THEN [ w EXCEPT !.pipeline[root] = pl ] ELSE w

\* self.derived = Samples(), and an entry for each parameter that has depends
StartOuts(w, pl) ==
    [ w EXCEPT !.outs = [ n \in { m \in DOMAIN pl.params : pl.params[m].depends # {} } |->
                            Output(0, << pl.param_values >>) ] ]

\* self.derived is what the loop has collected
AttachDerived(w, root, pl) ==
    Attach(w, root, [ pl EXCEPT !.derived = TRUE, !.outputs = w.outs ])

\* self.params.eval(**self.param_values), then the loop over the calculators
EvalAndRun(g, root, fail) ==
    IF g.w.err # "" THEN Attach(g.w, root, g.pl)
    ELSE AttachDerived(CalculateLoop(StartOuts(g.w, g.pl), g.pl.calculators,
                                     g.pl.param_values, fail), root, g.pl)

\* a call that starts from the declared values of the parameters
ResetAndUpdateValues(pl, args) ==
    [ pl EXCEPT !.param_values = Merge([ x \in DOMAIN pl.params |-> pl.params[x].value ], args) ]

\* self.param_values.update(params)
UpdateValues(pl, args) == [ pl EXCEPT !.param_values = Merge(@, args) ]

\* the check of the names, self.param_values.update(params)
CheckNames(g, root, args, fail) ==
    IF g.w.err # "" THEN Attach(g.w, root, g.pl)
    ELSE IF \E n \in DOMAIN args : n \notin DOMAIN g.pl.params
    THEN Attach([ g.w EXCEPT !.err = "PipelineError" ], root, g.pl)
    ELSE EvalAndRun(GetParams(g.w, UpdateValues(g.pl, args)), root, fail)

\* BasePipeline.calculate(**args) on the pipeline of root; nothing runs while an
\* exception propagates
PipelineCalculate(w, root, args, fail) ==
    IF w.err # "" THEN w
    ELSE CheckNames(IF args = << >> THEN [ w |-> w, pl |-> w.pipeline[root] ]
                    ELSE GetParams(w, w.pipeline[root]),
                    root, args, fail)

\* calculator(**args)
CallCalculator(w, root, args, fail) ==
    PipelineCalculate(GetPipeline(w, root), root, args, fail)

-----------------------------------------------------------------------------
(* Initial states: the calculators as constructed, nothing initialized *)

\* the requires graphs: calculator c holds calculators of smaller index, in any order
RECURSIVE GraphsUpTo(_)
GraphsUpTo(n) ==
    IF n = 0 THEN { << >> }
    ELSE { Append(g, a) : g \in GraphsUpTo(n - 1), a \in Arrangements(1 .. (n - 1)) }

RECURSIVE Reach(_, _, _)
Reach(g, S, n) ==
    IF n = 0 THEN S ELSE Reach(g, S \cup UNION { Range(g[c]) : c \in S }, n - 1)

\* every calculator is reachable from the last one
Graphs == { g \in GraphsUpTo(NCalc) : Reach(g, {NCalc}, NCalc) = Calcs }

\* at most one calculator has a hook that acts on other calculators
Hooks(g) == { h \in [ Calcs -> { "plain", "touch", "explicit" } ] :
                 /\ \A c \in Calcs : g[c] = << >> => h[c] = "plain"
                 /\ Cardinality({ c \in Calcs : h[c] # "plain" }) <= 1 }

\* calculator c declares one varied parameter of its own, named c
OwnParam(c) == Param(c, FloatV(0), 0, FALSE, FALSE, {})

InitRuntime ==
    /\ cfgArgs = [ c \in Calcs |-> 0 ]
    /\ updated = [ c \in Calcs |-> TRUE ]
    /\ heldZ = [ c \in Calcs |-> 0 ]
    /\ held = [ c \in Calcs |-> << >> ]
    /\ initialized = [ c \in Calcs |-> FALSE ]
    /\ reqKnown = [ c \in Calcs |-> FALSE ]
    /\ requires = [ c \in Calcs |-> << >> ]
    /\ required_by = [ c \in Calcs |-> {} ]
    /\ tocalc = [ c \in Calcs |-> TRUE ]
    /\ calculated = [ c \in Calcs |-> FALSE ]
    /\ rparams = initParams
    /\ pvals = [ c \in Calcs |-> [ n \in Inputs(initParams[c]) |-> initParams[c][n].value ] ]
    /\ dcache = [ c \in Calcs |-> << >> ]
    /\ speed = [ c \in Calcs |-> 0 ]
    /\ pipeline = [ c \in Calcs |-> NoPipeline ]
    /\ nupd = 0
    /\ ncall = 0
    /\ err = ""
    /\ cause = ""
    /\ sched = NoSchedule
    /\ ran = [ c \in Calcs |-> << >> ]
    /\ log = << >>
    /\ op = [ kind |-> "new", c |-> 0, args |-> << >>, built |-> FALSE, passed |-> FALSE,
              member |-> FALSE, init |-> FALSE, stale |-> FALSE ]

\* the calculators were constructed without options
InitFresh ==
    /\ cfgData = [ c \in Calcs |-> << >> ]
    /\ paramEdit = [ c \in Calcs |-> "none" ]
    /\ InitRuntime
    /\ mpi = NoBatch

\* all hooks are plain: each sets the attributes it is given and nothing else
InitPlain ==
    /\ cfgCalcs \in Graphs
    /\ touch = [ c \in Calcs |-> {} ]
    /\ explicit = [ c \in Calcs |-> FALSE ]
    /\ initParams = [ c \in Calcs |-> [ n \in {c} |-> OwnParam(c) ] ]
    /\ InitFresh

\* all hooks are plain; BaseCalculator.__init__ has put the options given to the
\* constructor in the InitConfig: self.init.update(**kwargs)
InitEdit ==
    /\ cfgCalcs \in Graphs
    /\ touch = [ c \in Calcs |-> {} ]
    /\ explicit = [ c \in Calcs |-> FALSE ]
    /\ initParams = [ c \in Calcs |-> [ n \in {c} |-> OwnParam(c) ] ]
    /\ cfgData \in { [ c \in Calcs |-> d ] : d \in { << >>, << << "z", 1 >> >> } }
    /\ paramEdit = [ c \in Calcs |-> "none" ]
    /\ InitRuntime
    /\ mpi = NoBatch

Init ==
    /\ cfgCalcs \in Graphs
    /\ \E h \in Hooks(cfgCalcs) :
          /\ touch = [ c \in Calcs |-> IF h[c] = "touch" THEN Range(cfgCalcs[c]) ELSE {} ]
          /\ explicit = [ c \in Calcs |-> h[c] = "explicit" ]
    /\ initParams = [ c \in Calcs |-> [ n \in {c} |-> OwnParam(c) ] ]
    /\ InitFresh

Root == NCalc

\* c is a calculator of the pipeline that r holds at present
InPipeline(r, c) == pipeline[r].built /\ c \in Range(pipeline[r].calculators)

\* what the operation was, and what it found: whether the root had a pipeline, whether
\* that pipeline had calculated, whether c was one of its calculators and initialized
Op(kind, c, args) ==
    [ kind |-> kind, c |-> c, args |-> args,
      built  |-> pipeline[Root].built,
      passed |-> pipeline[Root].built /\ pipeline[Root].derived,
      member |-> InPipeline(Root, c),
      init   |-> c \in Calcs /\ initialized[c],
      stale  |-> pipeline[Root].stale ]

\* calculator.runtime_info.pipeline
AccessPipeline(r) ==
    /\ Commit(GetPipeline(World, r))
    /\ op' = Op("pipeline", r, << >>)
    /\ UNCHANGED << nupd, ncall >>

\* calculator()
Call(r) ==
    /\ Commit(CallCalculator(World, r, << >>, {}))
    /\ op' = Op("call", r, << >>)
    /\ UNCHANGED << nupd, ncall >>

MaxZ == 1
MaxUpdates == 2

\* calculator.init.update(z=z)
UpdateInit(c, z) ==
    /\ nupd < MaxUpdates
    /\ nupd' = nupd + 1
    /\ Commit(ConfigUpdate(World, c, "z", z))
    /\ op' = Op("update", c, << >>)
    /\ UNCHANGED ncall

Next ==
    \/ AccessPipeline(Root)
    \/ Call(Root)
    \/ \E c \in Calcs, z \in 1 .. MaxZ : UpdateInit(c, z)

Spec == Init /\ [][Next]_vars

-----------------------------------------------------------------------------
(* Calls with parameter values *)

MaxVal == 1
MaxCalls == 2
MaxDirty == 1

\* the values a caller supplies
Values == { FloatV(v) : v \in 0 .. MaxVal } \cup { IntV(v) : v \in 1 .. MaxVal }

\* the keyword arguments of a call: at most one parameter of the pipeline
Args == { << >> } \cup UNION { { [ n \in {m} |-> v ] : v \in Values } : m \in Calcs }

\* calculator(**args)
CallWith(r, args) ==
    /\ ncall < MaxCalls
    /\ ncall' = ncall + 1
    /\ Commit(CallCalculator(World, r, args, {}))
    /\ op' = Op("call", r, args)
    /\ UNCHANGED nupd

\* calculator.runtime_info.tocalculate = True
SetToCalculate(c) ==
    /\ nupd < MaxDirty
    /\ nupd' = nupd + 1
    /\ InPipeline(Root, c)
    /\ Commit([ World EXCEPT !.tocalc[c] = TRUE ])
    /\ op' = Op("dirty", c, << >>)
    /\ UNCHANGED ncall

NextCalc ==
    \/ \E args \in Args : CallWith(Root, args)
    \/ \E c \in Calcs : SetToCalculate(c)

SpecCalc == InitPlain /\ [][NextCalc]_vars

-----------------------------------------------------------------------------
(* Edits of a calculator's InitConfig and of its requires, from outside *)

MaxEdits == 1

Keys == { "z" }

Edit(kind, c, w) ==
    /\ nupd < MaxEdits
    /\ nupd' = nupd + 1
    /\ Commit(w)
    /\ op' = Op(kind, c, << >>)
    /\ UNCHANGED ncall

SetItem(c, k, v)    == Edit("setitem", c, ConfigSetItem(World, c, k, v))
Update(c, k, v)     == Edit("update", c, ConfigUpdate(World, c, k, v))
DelItem(c, k)       == Edit("delitem", c, ConfigDelItem(World, c, k))
Pop(c, k)           == Edit("pop", c, ConfigPop(World, c, k))
PopItem(c)          == Edit("popitem", c, ConfigPopItem(World, c))
SetDefault(c, k, v) == Edit("setdefault", c, ConfigSetDefault(World, c, k, v))
ClearConfig(c)      == Edit("clear", c, ConfigClear(World, c))
SetArgs(c, a)       == Edit("args", c, ConfigSetArgs(World, c, a))
SetInitParams(c, p) == Edit("params", c, ConfigSetParams(World, c, p))

\* calculator.runtime_info.requires = l, for a calculator of a built pipeline
AssignRequires(c, l) ==
    /\ InPipeline(Root, c)
    /\ Edit("requires", c, SetRequires(World, c, l))

NextEdit ==
    \/ AccessPipeline(Root)
    \/ \E c \in Calcs, k \in Keys, v \in 1 .. MaxZ : SetItem(c, k, v)
    \/ \E c \in Calcs, k \in Keys, v \in 1 .. MaxZ : Update(c, k, v)
    \/ \E c \in Calcs, k \in Keys : DelItem(c, k)
    \/ \E c \in Calcs, k \in Keys : Pop(c, k)
    \/ \E c \in Calcs : PopItem(c)
    \/ \E c \in Calcs, k \in Keys, v \in 1 .. MaxZ : SetDefault(c, k, v)
    \/ \E c \in Calcs : ClearConfig(c)
    \/ \E c \in Calcs, a \in 1 .. MaxZ : SetArgs(c, a)
    \/ \E c \in Calcs : \E p \in { << >>, [ n \in {c} |-> OwnParam(c) ] } : SetInitParams(c, p)
    \/ \E c \in Calcs : \E l \in Arrangements(1 .. (c - 1)) : AssignRequires(c, l)

SpecEdit == InitEdit /\ [][NextEdit]_vars

-----------------------------------------------------------------------------
(* Unification: calculators that declare a parameter of the same name *)

MaxPrior == 1
MaxOverrides == 2

\* the name that several calculators declare
Shared == 1

\* the definitions of the shared name: differing priors, fixed or not, derived or not
Decls == { Param(Shared, FloatV(0), p, f, d, {}) :
              p \in 0 .. MaxPrior, f \in BOOLEAN, d \in BOOLEAN }

\* a collection that holds nothing, or one definition of the shared name
Collections == { << >> } \cup { [ n \in {Shared} |-> p ] : p \in Decls }

\* calculator c holds calculator c - 1: the flattened list is 1, 2, ..., NCalc
Chain == [ c \in Calcs |-> IF c = 1 THEN << >> ELSE << c - 1 >> ]

InitParams ==
    /\ cfgCalcs = Chain
    /\ touch = [ c \in Calcs |-> {} ]
    /\ explicit = [ c \in Calcs |-> FALSE ]
    /\ initParams \in [ Calcs -> Collections ]
    /\ InitFresh

\* pipeline.params = override
SetAllParams(r, override) ==
    /\ pipeline[r].built
    /\ nupd < MaxOverrides
    /\ nupd' = nupd + 1
    /\ Commit(Install(SetParams(World, pipeline[r], override), r))
    /\ op' = Op("setparams", r, override)
    /\ UNCHANGED ncall

NextParams ==
    \/ AccessPipeline(Root)
    \/ \E override \in Collections : SetAllParams(Root, override)

SpecParams == InitParams /\ [][NextParams]_vars

-----------------------------------------------------------------------------
(* Unification with dependency expressions, overrides and in-place edits *)

\* the name that a dependency expression references
Ref == 2

\* the shared name, varied, with prior p
VariedDef(p) == Param(Shared, FloatV(0), p, FALSE, FALSE, {})

\* the shared name, derived by an expression of Ref: derived = '{ref}**2'
ExprDef == Param(Shared, FloatV(0), 0, TRUE, TRUE, {Ref})

\* the referenced name, varied, with prior p
RefDef(p) == Param(Ref, FloatV(0), p, FALSE, FALSE, {})

\* what a calculator declares: nothing, the shared name varied, or as an expression
RefCollections == { << >>, [ n \in {Shared} |-> VariedDef(0) ], [ n \in {Shared} |-> ExprDef ] }

\* what a caller supplies as pipeline.params
Overrides ==
    { << >>, [ n \in {Shared} |-> ExprDef ] }
    \cup { [ n \in {Shared} |-> VariedDef(p) ] : p \in 0 .. MaxPrior }
    \cup { [ n \in {Ref} |-> RefDef(p) ] : p \in 0 .. MaxPrior }
    \cup { [ n \in {Shared, Ref} |-> IF n = Shared THEN ExprDef ELSE RefDef(p) ] :
              p \in 0 .. MaxPrior }

\* the definitions a caller may put under the name n
DefsOf(n) == IF n = Ref THEN { RefDef(p) : p \in 0 .. MaxPrior }
             ELSE { ExprDef } \cup { VariedDef(p) : p \in 0 .. MaxPrior }

InitRefs ==
    /\ cfgCalcs = Chain
    /\ touch = [ c \in Calcs |-> {} ]
    /\ explicit = [ c \in Calcs |-> FALSE ]
    /\ initParams \in [ Calcs -> RefCollections ]
    /\ InitFresh

\* pipeline.params[n] = p, pipeline.params[n].update(...): the collection is edited in
\* place and marked updated
UpdateUnified(r, n, p) ==
    /\ pipeline[r].built
    /\ nupd < MaxOverrides
    /\ nupd' = nupd + 1
    /\ Commit([ World EXCEPT !.pipeline[r].params = Merge(@, [ m \in {n} |-> p ]),
                             !.pipeline[r].stale = TRUE ])
    /\ op' = Op("inplace", r, [ m \in {n} |-> p ])
    /\ UNCHANGED ncall

\* pipeline.params
ReadParams(r) ==
    /\ pipeline[r].built
    /\ Commit(Install(GetParams(World, pipeline[r]), r))
    /\ op' = Op("readparams", r, << >>)
    /\ UNCHANGED << nupd, ncall >>

\* pipeline.varied_params: self.params, then self._varied_params
ReadVaried(r) ==
    /\ pipeline[r].built
    /\ Commit(Install(GetParams(World, pipeline[r]), r))
    /\ op' = Op("readvaried", r, << >>)
    /\ UNCHANGED << nupd, ncall >>

NextRefs ==
    \/ AccessPipeline(Root)
    \/ Call(Root)
    \/ \E override \in Overrides : SetAllParams(Root, override)
    \/ \E n \in { Shared, Ref } : \E p \in DefsOf(n) : UpdateUnified(Root, n, p)
    \/ ReadParams(Root)
    \/ ReadVaried(Root)

SpecRefs == InitRefs /\ [][NextRefs]_vars

-----------------------------------------------------------------------------
(* Calls that raise: unknown names, failing calculation hooks *)

\* a name that no calculator declares
Unknown == 0

\* the keyword arguments of a call: none, one name, or a name of a calculator and
\* the unknown name
ErrArgs ==
    { << >> }
    \cup { [ n \in {m} |-> FloatV(MaxVal) ] : m \in Calcs \cup {Unknown} }
    \cup { [ n \in {m, Unknown} |-> FloatV(MaxVal) ] : m \in Calcs }

\* calculator() while the calculation hook of c raises an exception
CallFailing(r, c) ==
    /\ ncall < MaxCalls
    /\ ncall' = ncall + 1
    /\ Commit(CallCalculator(World, r, << >>, {c}))
    /\ op' = Op("callfail", c, << >>)
    /\ UNCHANGED nupd

\* pipeline.params[n].update(prior=...)
UpdatePrior(r, n) ==
    /\ nupd < MaxDirty
    /\ n \in DOMAIN pipeline[r].params
    /\ UpdateUnified(r, n, [ pipeline[r].params[n] EXCEPT !.prior = MaxPrior ])

NextErr ==
    \/ \E args \in ErrArgs : CallWith(Root, args)
    \/ \E c \in Calcs : CallFailing(Root, c)
    \/ \E n \in Calcs : UpdatePrior(Root, n)

SpecErr == InitPlain /\ [][NextErr]_vars

-----------------------------------------------------------------------------
(* mpicalculate: a batch of parameter values over the participants of a communicator *)

MaxRanks == 3
MaxSets == 3

\* the sum of f over the ranks below r
RECURSIVE SumBelow(_, _)
SumBelow(f, r) == IF r = 0 THEN 0 ELSE f[r - 1] + SumBelow(f, r - 1)

\* np.cumsum([0] + self.mpicomm.allgather(size)), over 0 .. size of the communicator
CumSizes(sizes, nranks) == [ r \in 0 .. nranks |-> SumBelow(sizes, r) ]

\* mpi.scatter(array, mpiroot=0): participant r receives sizes[r] consecutive values
Scatter(array, sizes, nranks) ==
    [ r \in 0 .. nranks - 1 |->
        SubSeq(array, SumBelow(sizes, r) + 1, SumBelow(sizes, r) + sizes[r]) ]

\* self.derived after self.calculate(name=value)
DerivedOf(value) == [ of |-> value ]

\* the label without the offset of the participant
IStateLocal(ivalue, cumsizes, rank) == ivalue

\* istate = ivalue + cumsizes[mpicomm.rank]
IState(ivalue, cumsizes, rank) == ivalue + cumsizes[rank]

\* the batches: an array of at most MaxSets values at rank 0, scattered in consecutive
\* pieces over at most MaxRanks participants
Batches ==
    UNION { UNION { UNION {
        { [ phase |-> "run", nranks |-> nranks, array |-> array, sizes |-> sizes,
            local |-> Scatter(array, sizes, nranks),
            cumsizes |-> CumSizes(sizes, nranks),
            done |-> [ r \in 0 .. nranks - 1 |-> 0 ],
            states |-> [ r \in 0 .. nranks - 1 |-> << >> ],
            derived |-> << >>, err |-> "" ] :
          sizes \in { f \in [ 0 .. nranks - 1 -> 0 .. n ] : SumBelow(f, nranks) = n } } :
        array \in [ 1 .. n -> 0 .. MaxVal ] } :
        n \in 0 .. MaxSets } :
        nranks \in 1 .. MaxRanks }

InitMpi ==
    /\ cfgCalcs = Chain
    /\ touch = [ c \in Calcs |-> {} ]
    /\ explicit = [ c \in Calcs |-> FALSE ]
    /\ initParams = [ c \in Calcs |-> [ n \in {c} |-> OwnParam(c) ] ]
    /\ cfgData = [ c \in Calcs |-> << >> ]
    /\ paramEdit = [ c \in Calcs |-> "none" ]
    /\ InitRuntime
    /\ mpi \in Batches

\* if not cumsizes[-1]: self.derived = Samples(); return
MpiReturnEmpty ==
    /\ mpi.phase = "run"
    /\ mpi.cumsizes[mpi.nranks] = 0
    /\ mpi' = [ mpi EXCEPT !.phase = "empty", !.derived = << >> ]
    /\ UNCHANGED << cfgCalcs, touch, explicit, paramEdit, cfgArgs, cfgData, updated, initParams, heldZ,
                    held, initialized, reqKnown, requires, required_by, tocalc, calculated,
                    rparams, pvals, dcache, speed, pipeline, nupd, ncall, err, cause, log, op,
                    sched, ran >>

\* one turn of: for ivalue in range(size), at the participant rank
MpiCalculateLocal(rank) ==
    /\ mpi.phase = "run"
    /\ mpi.cumsizes[mpi.nranks] # 0
    /\ rank \in 0 .. mpi.nranks - 1
    /\ mpi.done[rank] < Len(mpi.local[rank])
    /\ mpi' = [ mpi EXCEPT
                  !.states[rank] = Merge(@, [ i \in { IState(mpi.done[rank], mpi.cumsizes, rank) } |->
                                                DerivedOf(mpi.local[rank][mpi.done[rank] + 1]) ]),
                  !.done[rank] = @ + 1 ]
    /\ UNCHANGED << cfgCalcs, touch, explicit, paramEdit, cfgArgs, cfgData, updated, initParams, heldZ,
                    held, initialized, reqKnown, requires, required_by, tocalc, calculated,
                    rparams, pvals, dcache, speed, pipeline, nupd, ncall, err, cause, log, op,
                    sched, ran >>

\* for state in states: derived.update(state), over the ranks below r
RECURSIVE UpdateAll(_, _)
UpdateAll(states, r) == IF r = 0 THEN << >> ELSE Merge(UpdateAll(states, r - 1), states[r - 1])

\* Samples.concatenate([derived[i] for i in range(cumsizes[-1])]) of the gathered states
Concatenate(derived, total) ==
    IF \E i \in 0 .. total - 1 : i \notin DOMAIN derived
    THEN [ derived |-> << >>, err |-> "KeyError" ]
    ELSE [ derived |-> [ i \in 1 .. total |-> derived[i - 1] ], err |-> "" ]

\* self.mpicomm.gather(states, root=0) once every participant has left its loop, and
\* the reassembly at rank 0
MpiGather ==
    /\ mpi.phase = "run"
    /\ mpi.cumsizes[mpi.nranks] # 0
    /\ \A r \in 0 .. mpi.nranks - 1 : mpi.done[r] = Len(mpi.local[r])
    /\ mpi' = [ mpi EXCEPT
                  !.phase = "gathered",
                  !.derived = Concatenate(UpdateAll(mpi.states, mpi.nranks),
                                          mpi.cumsizes[mpi.nranks]).derived,
                  !.err = Concatenate(UpdateAll(mpi.states, mpi.nranks),
                                      mpi.cumsizes[mpi.nranks]).err ]
    /\ UNCHANGED << cfgCalcs, touch, explicit, paramEdit, cfgArgs, cfgData, updated, initParams, heldZ,
                    held, initialized, reqKnown, requires, required_by, tocalc, calculated,
                    rparams, pvals, dcache, speed, pipeline, nupd, ncall, err, cause, log, op,
                    sched, ran >>

NextMpi ==
    \/ MpiReturnEmpty
    \/ \E rank \in 0 .. MaxRanks - 1 : MpiCalculateLocal(rank)
    \/ MpiGather

SpecMpi == InitMpi /\ [][NextMpi]_vars

-----------------------------------------------------------------------------
(* block_params: the parameters in blocks of equal footprint, ordered by cost *)

\* the costs 1 / speed of the calculators are 1 .. MaxCost: speeds 1.0, 0.5, ...
MaxCost == 2

\* block_params is called at most MaxSchedules times
MaxSchedules == 1

\* callback(calculator): the calculators appended for the calculators of S
RECURSIVE Appended(_, _, _)
Appended(w, S, n) ==
    IF n = 0 THEN S
    ELSE Appended(w, S \cup UNION { w.required_by[c] : c \in S }, n - 1)

\* callback(calculator): for calculator in calculator.runtime_info.required_by:
\* calculators_to_calculate.append(calculator); callback(calculator)
CallbackAppend(w, c) == Appended(w, w.required_by[c], NCalc)

\* tuple(calculator in calculators_to_calculate for calculator in self.calculators),
\* as the set of the calculators of which the entry is True
FootprintOf(w, pl, n) ==
    Range(pl.calculators)
    \cap UNION { CallbackAppend(w, c) :
                   c \in { d \in Range(pl.calculators) : n \in DOMAIN w.rparams[d] } }

\* costs.dot(row) for the row of the calculators of S, over the calculators 1 .. n
RECURSIVE Dot(_, _, _)
Dot(costs, S, n) ==
    IF n = 0 THEN 0 ELSE (IF n \in S THEN costs[n] ELSE 0) + Dot(costs, S, n - 1)

\* get_cost_per_param_per_block(ordering)[i]: the cost of the calculators in the
\* footprints of the blocks at and after position i
CostPerBlock(fps, ordering, costs, i) ==
    Dot(costs, UNION { fps[ordering[j]] : j \in i .. Len(ordering) }, NCalc)

\* (costs[..., [0]] / costs) ** oversample_power, as i4, for oversample_power = 0:
\* every entry is 1, also where a cost is 0 (nan ** 0 and inf ** 0 are 1.0)
OversampleFactor == 1

\* (block_sizes[ordering] * oversample_factors).dot(costs) over the positions from i
RECURSIVE TotalCostFrom(_, _, _, _, _)
TotalCostFrom(fps, sizes, ordering, costs, i) ==
    IF i > Len(ordering) THEN 0
    ELSE sizes[ordering[i]] * OversampleFactor * CostPerBlock(fps, ordering, costs, i)
         + TotalCostFrom(fps, sizes, ordering, costs, i + 1)

\* total_costs[i] for the ordering o
TotalCost(fps, sizes, o, costs) == TotalCostFrom(fps, sizes, o, costs, 1)

\* a comes before b in list(permutations(...))
RECURSIVE LexLess(_, _)
LexLess(a, b) ==
    /\ a # << >>
    /\ \/ Head(a) < Head(b)
       \/ Head(a) = Head(b) /\ LexLess(Tail(a), Tail(b))

\* the first of the orderings os in list(permutations(...))
FirstOf(os) == CHOOSE o \in os : \A q \in os \ {o} : LexLess(o, q)

\* the orderings of total cost t
OfCost(fps, sizes, costs, t) ==
    { o \in Perms(1 .. Len(fps)) : TotalCost(fps, sizes, o, costs) = t }

\* np.min(total_costs)
LeastOf(ts) == CHOOSE t \in ts : \A u \in ts : t <= u

\* orderings[0]: the first ordering whatever the costs
FirstOrdering(fps, sizes, costs) == FirstOf(Perms(1 .. Len(fps)))

\* orderings[np.argmin(total_costs)]: the first ordering of least total cost
OptimalOrdering(fps, sizes, costs) ==
    FirstOf(OfCost(fps, sizes, costs,
                   LeastOf({ TotalCost(fps, sizes, o, costs) : o \in Perms(1 .. Len(fps)) })))

\* costs_per_block = costs - np.append(costs[1:], 0), over the sorted blocks
CostsPerBlock(fps, ordering, costs) ==
    [ i \in 1 .. Len(ordering) |->
        CostPerBlock(fps, ordering, costs, i)
        - (IF i = Len(ordering) THEN 0 ELSE CostPerBlock(fps, ordering, costs, i + 1)) ]

\* log_differences[i] <= log_differences[j]: the entry is log(cpb[i]) - log(cpb[i + 1])
\* where both costs are not zero, and 0 elsewhere
LogDiffLeq(cpb, i, j) ==
    LET ni == IF cpb[i] # 0 /\ cpb[i + 1] # 0 THEN cpb[i] ELSE 1
        di == IF cpb[i] # 0 /\ cpb[i + 1] # 0 THEN cpb[i + 1] ELSE 1
        nj == IF cpb[j] # 0 /\ cpb[j + 1] # 0 THEN cpb[j] ELSE 1
        dj == IF cpb[j] # 0 /\ cpb[j + 1] # 0 THEN cpb[j + 1] ELSE 1
    IN  ni * dj <= nj * di

\* the outcomes of np.argsort(log_differences): equal entries come in any order
ArgSorts(cpb) ==
    { a \in Perms(1 .. Len(cpb) - 1) :
        \A i \in 1 .. Len(a) - 1 : LogDiffLeq(cpb, a[i], a[i + 1]) }

\* a[-(m):] of a list a: the last m entries, and for m = 0 the slice a[-0:], all of a
LastEntries(a, m) ==
    IF m = 0 \/ m >= Len(a) THEN Range(a)
    ELSE { a[i] : i \in Len(a) - m + 1 .. Len(a) }

\* the coarse group of the sorted block at position i: split point s (a position of
\* log_differences, plus 1) separates the blocks s and s + 1
GroupOf(splits, i) == 1 + Cardinality({ s \in splits : s < i })

\* sort_parameter_blocks(...)[2] for n blocks: the factors in the optimal ordering
Factors(n) == [ i \in 1 .. n |-> OversampleFactor ]

\* np.concatenate([np.full(size, factor) for factor, size in zip(factors, sizes of
\* the slices)]): for each sorted block the factor at the position of its group
Unfold(factors, splits, nfine) == [ i \in 1 .. nfine |-> factors[GroupOf(splits, i)] ]

\* the factors of the branch with a block count: those of sort_parameter_blocks on
\* the merged blocks, one for each group of the split points splits, unfolded
SplitFactors(splits, nfine) == Unfold(Factors(Cardinality(splits) + 1), splits, nfine)

\* the return value of block_params, and what it computed on the way
Schedule(names, nblocks, fp, blocks, splits, factors, error) ==
    [ kind |-> "blocks", names |-> names, nblocks |-> nblocks, footprints |-> fp,
      blocks |-> blocks, splits |-> splits, factors |-> factors, err |-> error ]

\* len(param_blocks) < nblocks + 1
TooManyBlocksLate(fps, nblocks) == Len(fps) < nblocks - 1

\* len(param_blocks) < nblocks
TooManyBlocks(fps, nblocks) == Len(fps) < nblocks

\* the sizes of the blocks of the footprints fps
BlockSizes(names, fp, fps) ==
    [ i \in 1 .. Len(fps) |-> Cardinality({ n \in names : fp[n] = fps[i] }) ]

\* sorted_blocks = [param_blocks[i] for i in i_optimal_ordering]
SortedBlocks(names, fp, fps, ordering) ==
    [ i \in 1 .. Len(fps) |-> { n \in names : fp[n] = fps[ordering[i]] } ]

\* block_params once the footprints fp are computed; fps: list(set(footprints)),
\* ordering: the optimal ordering, argsort: the outcome of np.argsort; nblocks = 0: None
SortAndSplit(names, nblocks, costs, fp, fps, ordering, argsort) ==
    IF nblocks = 0
    THEN Schedule(names, nblocks, fp, SortedBlocks(names, fp, fps, ordering), {},
                  Factors(Len(fps)), "")
    ELSE IF TooManyBlocks(fps, nblocks)
    THEN Schedule(names, nblocks, fp, << >>, {}, << >>, "ValueError")
    ELSE Schedule(names, nblocks, fp, SortedBlocks(names, fp, fps, ordering),
                  LastEntries(argsort, nblocks - 1),
                  SplitFactors(LastEntries(argsort, nblocks - 1), Len(fps)), "")

\* the footprints of the parameters names
Footprints(w, pl, names) == [ n \in names |-> FootprintOf(w, pl, n) ]

\* pipeline.params.select(varied=True)
VariedNames(pl) == { n \in DOMAIN pl.params : ~pl.params[n].fixed }

\* block_params returns, or raises the error of the schedule
Return(r, costs, schedule) ==
    /\ Commit([ World EXCEPT !.speed = costs, !.sched = schedule, !.err = schedule.err ])
    /\ op' = Op("blocks", r, costs)
    /\ ncall' = ncall + 1
    /\ UNCHANGED nupd

\* nblocks = None (0) or 1 .. MaxBlocks
MaxBlocks == 4

\* calculator.runtime_info.speed = 1 / costs[calculator] for each calculator, then
\* pipeline.block_params(params=names, nblocks=nblocks) for some nblocks; the distinct
\* footprints come in the list fps in the order in which a set iterates, and
\* np.argsort returns one of its outcomes
BlockParams(r, names, costs) ==
    /\ ncall < MaxSchedules
    /\ pipeline[r].built
    /\ ~pipeline[r].stale
    /\ names # {} /\ names \subseteq VariedNames(pipeline[r])
    /\ \E fp \in { Footprints(World, pipeline[r], names) } :
       \E fps \in Perms({ fp[n] : n \in names }) :
       \E ordering \in { OptimalOrdering(fps, BlockSizes(names, fp, fps), costs) } :
       \E nblocks \in 0 .. MaxBlocks :
       \E argsort \in ArgSorts(CostsPerBlock(fps, ordering, costs)) :
          Return(r, costs, SortAndSplit(names, nblocks, costs, fp, fps, ordering, argsort))

\* the graphs in which every calculator lists the calculators it requires in
\* ascending order; each calculator declares one varied parameter of its own
InitBlocks ==
    /\ cfgCalcs \in { g \in Graphs : \A c \in Calcs : g[c] = SeqOfSet(Range(g[c])) }
    /\ touch = [ c \in Calcs |-> {} ]
    /\ explicit = [ c \in Calcs |-> FALSE ]
    /\ initParams = [ c \in Calcs |-> [ n \in {c} |-> OwnParam(c) ] ]
    /\ InitFresh

\* params = None: all varied parameters
NextBlocks ==
    \/ AccessPipeline(Root)
    \/ \E costs \in [ Calcs -> 1 .. MaxCost ] :
          BlockParams(Root, VariedNames(pipeline[Root]), costs)

SpecBlocks == InitBlocks /\ [][NextBlocks]_vars

-----------------------------------------------------------------------------
(* Calls with parameter values and assignments of pipeline.params in between *)

\* calculator(**args) and calculator.all_params = {}: the unification is re-run
\* without an override
NextReset ==
    \/ \E args \in Args : CallWith(Root, args)
    \/ SetAllParams(Root, << >>)

SpecReset == InitPlain /\ [][NextReset]_vars

-----------------------------------------------------------------------------
(* Calls with parameter values of which some raise, on the chain *)

MaxRetries == 3

\* the chain; each calculator declares one varied parameter of its own
InitChain ==
    /\ cfgCalcs = Chain
    /\ touch = [ c \in Calcs |-> {} ]
    /\ explicit = [ c \in Calcs |-> FALSE ]
    /\ initParams = [ c \in Calcs |-> [ n \in {c} |-> OwnParam(c) ] ]
    /\ InitFresh

\* calculator(**args)
Retry(r, args) ==
    /\ ncall < MaxRetries
    /\ ncall' = ncall + 1
    /\ Commit(CallCalculator(World, r, args, {}))
    /\ op' = Op("call", r, args)
    /\ UNCHANGED nupd

\* calculator(**args) while the calculation hook of c raises an exception
RetryFailing(r, c, args) ==
    /\ ncall < MaxRetries
    /\ ncall' = ncall + 1
    /\ Commit(CallCalculator(World, r, args, {c}))
    /\ op' = Op("callfail", c, args)
    /\ UNCHANGED nupd

\* the keyword arguments of a call: none, or a value of one parameter
RetryArgs == { << >> } \cup { [ n \in {m} |-> FloatV(v) ] : m \in Calcs, v \in 0 .. MaxVal }

NextRetry ==
    \/ \E args \in RetryArgs : Retry(Root, args)
    \/ \E args \in RetryArgs : \E c \in Calcs : RetryFailing(Root, c, args)

SpecRetry == InitChain /\ [][NextRetry]_vars

-----------------------------------------------------------------------------
(* RuntimeInfo.initialize called from outside; hooks that edit their parameters *)

\* what the hooks do with their parameters: nothing, fix them in place, or assign a
\* selection of them
ParamEdits == [ Calcs -> { "none", "fix", "select" } ]

\* at most one calculator has a hook that does more than keep what it is given
OneHook(h, e) == Cardinality({ c \in Calcs : h[c] # "plain" \/ e[c] # "none" }) <= 1

InitHooks ==
    /\ cfgCalcs \in { g \in Graphs : \A c \in Calcs : g[c] = SeqOfSet(Range(g[c])) }
    /\ \E h \in Hooks(cfgCalcs) :
          /\ touch = [ c \in Calcs |-> IF h[c] = "touch" THEN Range(cfgCalcs[c]) ELSE {} ]
          /\ explicit = [ c \in Calcs |-> h[c] = "explicit" ]
          /\ paramEdit \in { e \in ParamEdits : OneHook(h, e) }
    /\ initParams = [ c \in Calcs |-> [ n \in {c} |-> OwnParam(c) ] ]
    /\ cfgData = [ c \in Calcs |-> << >> ]
    /\ InitRuntime
    /\ mpi = NoBatch

\* calculator.runtime_info.initialize()
InitializeCalc(c) ==
    /\ ncall < MaxCalls
    /\ Commit(Initialize(World, c))
    /\ op' = Op("initialize", c, << >>)
    /\ ncall' = ncall + 1
    /\ UNCHANGED nupd

\* calculator.init.update(z=z), once
UpdateOnce(c, z) == nupd < MaxEdits /\ UpdateInit(c, z)

NextInit ==
    \/ \E c \in Calcs : InitializeCalc(c)
    \/ \E c \in Calcs, z \in 1 .. MaxZ : UpdateOnce(c, z)
    \/ AccessPipeline(Root)

SpecInit == InitHooks /\ [][NextInit]_vars

-----------------------------------------------------------------------------
(* RuntimeInfo.initialized assigned and RuntimeInfo.clear called from outside *)

\* lists of requirements in ascending order, the root holding every other calculator;
\* each kind of hook; no options
InitFlags ==
    /\ cfgCalcs \in { g \in Graphs : /\ \A c \in Calcs : g[c] = SeqOfSet(Range(g[c]))
                                     /\ Range(g[Root]) = Calcs \ {Root} }
    /\ \E h \in Hooks(cfgCalcs) :
          /\ touch = [ c \in Calcs |-> IF h[c] = "touch" THEN Range(cfgCalcs[c]) ELSE {} ]
          /\ explicit = [ c \in Calcs |-> h[c] = "explicit" ]
    /\ initParams = [ c \in Calcs |-> [ n \in {c} |-> OwnParam(c) ] ]
    /\ InitFresh

\* an operation on the RuntimeInfo of c, from outside
OnRuntime(kind, c, w) ==
    /\ ncall < MaxCalls
    /\ ncall' = ncall + 1
    /\ Commit(w)
    /\ op' = Op(kind, c, << >>)
    /\ UNCHANGED nupd

\* calculator.runtime_info.initialized = b
AssignInitialized(c, b) ==
    OnRuntime(IF b THEN "settrue" ELSE "setfalse", c,
              IF b THEN SetInitializedTrue(World, c) ELSE SetInitializedFalse(World, c))

\* calculator.runtime_info.clear()
ClearRuntime(c) == OnRuntime("clearinfo", c, Clear(World, c))

NextFlags ==
    \/ \E c \in Calcs : InitializeCalc(c)
    \/ \E c \in Calcs, b \in BOOLEAN : AssignInitialized(c, b)
    \/ \E c \in Calcs : ClearRuntime(c)
    \/ \E c \in Calcs, z \in 1 .. MaxZ : UpdateOnce(c, z)
    \/ AccessPipeline(Root)

SpecFlags == InitFlags /\ [][NextFlags]_vars

-----------------------------------------------------------------------------
(* Derived outputs: calculators that declare a derived parameter *)

\* the name of the derived output that several calculators declare
Out == NCalc + 1

\* a derived parameter of name n: its value is read from the calculator
DerivedDef(n) == Param(n, FloatV(0), 0, TRUE, TRUE, {})

\* calculator c declares its own varied parameter and the derived output
WithOut(c) == [ n \in {c, Out} |-> IF n = c THEN OwnParam(c) ELSE DerivedDef(Out) ]

\* calculator 2 holds 1, the root holds every other calculator and 3 holds 1 or 2;
\* each calculator declares its own parameter, some the derived output too
InitDerived ==
    /\ cfgCalcs \in { g \in Graphs : /\ \A c \in Calcs : g[c] = SeqOfSet(Range(g[c]))
                                     /\ Range(g[Root]) = Calcs \ {Root}
                                     /\ \A c \in Calcs \ {1} : g[c] # << >> }
    /\ touch = [ c \in Calcs |-> {} ]
    /\ explicit = [ c \in Calcs |-> FALSE ]
    /\ initParams \in { f \in [ Calcs -> { [ n \in {c} |-> OwnParam(c) ] : c \in Calcs }
                                          \cup { WithOut(c) : c \in Calcs } ] :
                           \A c \in Calcs : c \in DOMAIN f[c] }
    /\ InitFresh

\* pipeline.params = {n: {'derived': True}}, once: an input becomes a derived output
MarkDerived(r, n) ==
    /\ nupd < MaxEdits
    /\ SetAllParams(r, [ m \in {n} |-> DerivedDef(n) ])

NextDerived ==
    \/ \E args \in Args : CallWith(Root, args)
    \/ \E c \in Calcs : CallFailing(Root, c)
    \/ \E n \in Calcs : MarkDerived(Root, n)
    \/ \E c \in Calcs, z \in 1 .. MaxZ : UpdateOnce(c, z)

SpecDerived == InitDerived /\ [][NextDerived]_vars

-----------------------------------------------------------------------------
(* RuntimeInfo.set_param_values called from outside with force *)

\* calculator 2 holds 1, the root holds every other calculator and 3 holds 1 or 2;
\* each calculator declares its own parameter or none
InitForce ==
    /\ cfgCalcs \in { g \in Graphs : /\ \A c \in Calcs : g[c] = SeqOfSet(Range(g[c]))
                                     /\ Range(g[Root]) = Calcs \ {Root}
                                     /\ \A c \in Calcs \ {1} : g[c] # << >> }
    /\ touch = [ c \in Calcs |-> {} ]
    /\ explicit = [ c \in Calcs |-> FALSE ]
    /\ initParams \in { f \in [ Calcs -> { << >> } \cup { [ n \in {c} |-> OwnParam(c) ] : c \in Calcs } ] :
                           \A c \in Calcs : DOMAIN f[c] \subseteq {c} }
    /\ InitFresh

\* calculator.runtime_info.set_param_values(values, force=force), for a calculator of
\* the pipeline, once
ForceValues(c, values, force) ==
    /\ nupd < MaxDirty
    /\ nupd' = nupd + 1
    /\ InPipeline(Root, c)
    /\ Commit(SetParamValuesForce(World, c, values, force))
    /\ op' = Op(IF force THEN "force" ELSE "unforce", c, values)
    /\ UNCHANGED ncall

\* the values supplied with force: none, or a float for one name
ForceArgs == { << >> } \cup { [ n \in {m} |-> FloatV(v) ] : m \in Calcs, v \in 0 .. MaxVal }

NextForce ==
    \/ \E args \in Args : CallWith(Root, args)
    \/ \E c \in Calcs, values \in ForceArgs, force \in BOOLEAN : ForceValues(c, values, force)

SpecForce == InitForce /\ [][NextForce]_vars

-----------------------------------------------------------------------------
(* RuntimeInfo.clear called on a calculator of a pipeline that has calculated *)

\* calculator 2 holds 1, the root holds every other calculator and 3 holds 1 or 2;
\* each calculator declares its own parameter and the derived output
InitClear ==
    /\ cfgCalcs \in { g \in Graphs : /\ \A c \in Calcs : g[c] = SeqOfSet(Range(g[c]))
                                     /\ Range(g[Root]) = Calcs \ {Root}
                                     /\ \A c \in Calcs \ {1} : g[c] # << >> }
    /\ touch = [ c \in Calcs |-> {} ]
    /\ explicit = [ c \in Calcs |-> FALSE ]
    /\ initParams = [ c \in Calcs |-> WithOut(c) ]
    /\ InitFresh

\* calculator.runtime_info.speed = 1 / cost, once (as BasePipeline._set_speed does)
SetSpeed(c, cost) ==
    /\ nupd < MaxEdits
    /\ nupd' = nupd + 1
    /\ Commit([ World EXCEPT !.speed[c] = cost ])
    /\ op' = Op("speed", c, << >>)
    /\ UNCHANGED ncall

NextClear ==
    \/ AccessPipeline(Root)
    \/ \E args \in Args : CallWith(Root, args)
    \/ \E c \in Calcs, cost \in 1 .. MaxCost : SetSpeed(c, cost)
    \/ \E c \in Calcs : ClearRuntime(c)

SpecClear == InitClear /\ [][NextClear]_vars

-----------------------------------------------------------------------------
(* pipeline.params = override, where the override may name a parameter of no calculator *)

\* a definition of n that differs from the declared one by its prior
PriorDef(n) == Param(n, FloatV(0), MaxPrior, FALSE, FALSE, {})

\* the overrides: one parameter of a calculator, the unknown name, or both
AssignOverrides ==
    { [ n \in {m} |-> PriorDef(n) ] : m \in Calcs \cup {Unknown} }
    \cup { [ n \in {m, Unknown} |-> PriorDef(n) ] : m \in Calcs }

NextAssign ==
    \/ AccessPipeline(Root)
    \/ \E args \in Args : CallWith(Root, args)
    \/ \E override \in AssignOverrides : SetAllParams(Root, override)

SpecAssign == InitChain /\ [][NextAssign]_vars

-----------------------------------------------------------------------------
(* Reads of a calculator's InitConfig: a keyed lookup and the three properties *)

\* InitConfig.args, InitConfig.params, InitConfig.updated (the getters)
ConfigArgs(w, c) == w
ConfigParams(w, c) == w
ConfigUpdated(w, c) == w

\* calculator.init[k]
GetItem(c, k) == Edit("getitem", c, ConfigGetItem(World, c, k))

ReadConfig(kind, c, w) ==
    /\ ncall < MaxCalls
    /\ ncall' = ncall + 1
    /\ Commit(w)
    /\ op' = Op(kind, c, << >>)
    /\ UNCHANGED nupd

\* calculator.init.args, calculator.init.params, calculator.init.updated
ReadArgs(c)       == ReadConfig("readargs", c, ConfigArgs(World, c))
ReadInitParams(c) == ReadConfig("readinitparams", c, ConfigParams(World, c))
ReadUpdated(c)    == ReadConfig("readupdated", c, ConfigUpdated(World, c))

NextLookup ==
    \/ AccessPipeline(Root)
    \/ \E c \in Calcs, k \in Keys : GetItem(c, k)
    \/ \E c \in Calcs : ReadArgs(c)
    \/ \E c \in Calcs : ReadInitParams(c)
    \/ \E c \in Calcs : ReadUpdated(c)

SpecLookup == InitEdit /\ [][NextLookup]_vars

-----------------------------------------------------------------------------
(* mpicalculate at one participant that is alone in its communicator: the pipeline's *)
(* mpicomm and more_derived, which the method borrows while it calculates            *)

\* the pipeline as BasePipeline.__init__ leaves it: self.mpicomm = calculator.mpicomm,
\* self.more_derived = None
OwnComm == [ phase |-> "none", mpicomm |-> "COMM_WORLD", more_derived |-> "None" ]

InitBatch ==
    /\ cfgCalcs = Chain
    /\ touch = [ c \in Calcs |-> {} ]
    /\ explicit = [ c \in Calcs |-> FALSE ]
    /\ initParams = [ c \in Calcs |-> [ n \in {c} |-> OwnParam(c) ] ]
    /\ cfgData = [ c \in Calcs |-> << >> ]
    /\ paramEdit = [ c \in Calcs |-> "none" ]
    /\ InitRuntime
    /\ mpi = OwnComm

\* tmp = more_derived(istate): the hook returns one entry, named Out
MoreDerived(hook, istate) ==
    IF hook = "None" THEN << >> ELSE [ n \in {Out} |-> Output(Root, << istate >>) ]

\* states[istate] = self.derived; states[istate].update(tmp)
StateOf(w, hook, istate) == Merge(w.pipeline[Root].outputs, MoreDerived(hook, istate))

\* Samples.concatenate([derived[i] for i in range(cumsizes[-1])])
ConcatenateStates(states) ==
    [ n \in DOMAIN states[1] |->
        [ by |-> states[1][n].by, vals |-> [ i \in 1 .. Len(states) |-> states[i][n].vals ] ] ]

\* self.derived = self.derived[:0], or Samples() when there was none
EmptyDerived(w) ==
    [ w EXCEPT !.pipeline[Root].derived = TRUE,
               !.pipeline[Root].outputs = [ n \in DOMAIN @ |-> [ @[n] EXCEPT !.vals = << >> ] ],
               !.mpi.phase = "empty" ]

\* self.mpicomm, self.more_derived = mpi.COMM_SELF, None
Borrow(w) == [ w EXCEPT !.mpi.mpicomm = "COMM_SELF", !.mpi.more_derived = "None" ]

\* self.mpicomm, self.more_derived = mpicomm, more_derived
RestoreComm(w, saved) ==
    [ w EXCEPT !.mpi.mpicomm = saved.mpicomm, !.mpi.more_derived = saved.more_derived ]

\* states = self.mpicomm.gather(states, root=0); self.derived = the concatenation
GatherOne(w, states) ==
    [ w EXCEPT !.pipeline[Root].derived = TRUE,
               !.pipeline[Root].outputs = ConcatenateStates(states),
               !.mpi.phase = "gathered" ]

RECURSIVE BatchLoop(_, _, _, _, _, _), BatchTurn(_, _, _, _, _, _)

\* for ivalue in range(size): self.calculate(name=value[ivalue]), ...
BatchLoop(w, name, s, saved, fail, states) ==
    IF s = << >> THEN GatherOne(RestoreComm(w, saved), states)
    ELSE BatchTurn(PipelineCalculate(w, Root, [ n \in {name} |-> Head(s) ], fail),
                   name, s, saved, fail, states)

\* an exception of self.calculate leaves the method; otherwise the state is recorded
BatchTurn(w, name, s, saved, fail, states) ==
    IF w.err # "" THEN [ w EXCEPT !.mpi.phase = "raised" ]
    ELSE BatchLoop(w, name, Tail(s), saved, fail,
                   Append(states, StateOf(w, saved.more_derived, Len(states))))

\* BasePipeline.mpicalculate(name=values)
MpiCalculateAlone(w, name, values, fail) ==
    IF values = << >> THEN EmptyDerived(w)
    ELSE BatchLoop(Borrow(w), name, values, w.mpi, fail, << >>)

\* the arrays of a batch: at most MaxSets values
BatchValues == UNION { [ 1 .. n -> { FloatV(v) : v \in 0 .. MaxVal } ] : n \in 0 .. MaxSets }

\* pipeline.more_derived = hook
SetMoreDerived(hook) ==
    /\ pipeline[Root].built
    /\ nupd < MaxEdits
    /\ nupd' = nupd + 1
    /\ Commit([ World EXCEPT !.mpi.more_derived = hook ])
    /\ op' = Op("moreder", Root, << hook >>)
    /\ UNCHANGED ncall

\* pipeline.mpicalculate(name=values), while the calculation hooks of fail raise
MpiCalculate(name, values, fail) ==
    /\ pipeline[Root].built
    /\ ncall < MaxCalls
    /\ ncall' = ncall + 1
    /\ Commit(MpiCalculateAlone(World, name, values, fail))
    /\ op' = Op("mpicalculate", Root, << name, values, fail >>)
    /\ UNCHANGED nupd

NextBatch ==
    \/ AccessPipeline(Root)
    \/ \E hook \in { "None", "hook" } : SetMoreDerived(hook)
    \/ \E fail \in { {} } \cup { {c} : c \in Calcs } :
          \E name \in Calcs \cup {Unknown} : \E values \in BatchValues :
             MpiCalculate(name, values, fail)

SpecBatch == InitBatch /\ [][NextBatch]_vars

-----------------------------------------------------------------------------
(* The claims *)

\* calculator.runtime_info.requires, as a read would return it
Requires(c) == IF reqKnown[c] THEN requires[c] ELSE held[c]

\* the calculators that c requires, directly or transitively
RECURSIVE RequiresClosure(_, _)
RequiresClosure(S, n) ==
    IF n = 0 THEN S
    ELSE RequiresClosure(S \cup UNION { Range(Requires(d)) : d \in S }, n - 1)
AllRequires(c) == RequiresClosure(Range(Requires(c)), NCalc)

\* the last operation built a pipeline
Built == op.kind \in { "pipeline", "call" } /\ ~op.built /\ err = ""

\* the calculators whose calculation hook the last operation ran
Executed == { log[i].c : i \in { j \in 1 .. Len(log) : log[j].kind = "calc" } }

\* C1: the flattened list of a pipeline that was just built is a topological order of
\* the requires, and ends with the root
TopologicalOrder ==
    Built =>
        LET o == pipeline[op.c].calculators
        IN  /\ o[Len(o)] = op.c
            /\ \A i \in 1 .. Len(o) : \A d \in Range(Requires(o[i])) :
                   \E j \in 1 .. (i - 1) : o[j] = d

\* C1, witness: a pipeline was built over a diamond: the root requires d and also c, which requires d
DiamondBuilt ==
    /\ Built
    /\ \E c, d \in Calcs : /\ d \in Range(Requires(Root))
                           /\ c \in Range(Requires(Root))
                           /\ d \in Range(Requires(c))

\* the calculators whose calculation hook ran, by the log l
ExecutedIn(l) == { l[i].c : i \in { j \in 1 .. Len(l) : l[j].kind = "calc" } }

\* the calculators of the root's pipeline
Members == Range(pipeline[Root].calculators)

\* the last operation was a call that returned
Called == op.kind = "call" /\ err = ""

\* C2: a call on a pipeline it has just built runs the calculation hook of every
\* calculator; a call that follows a call with the same values runs none, and leaves
\* the calculated flag of every calculator false
SecondCallIsIdle ==
    [][ (Called' /\ ~op'.built => ExecutedIn(log') = Members')
        /\ (Called /\ Called' /\ op'.args = op.args
              => /\ ExecutedIn(log') = {}
                 /\ \A c \in Members' : ~calculated'[c]) ]_vars

\* C2, witness: the second of two calls with the same values, of which one given, has returned
SecondCallDone ==
    /\ Called /\ op.built /\ op.passed /\ ncall = 2 /\ nupd = 0
    /\ op.args # << >>
    /\ Executed = {}

\* C3: in a pass, after the calculation hook of a calculator has run, the hook of
\* every calculator of the pipeline that requires it, directly or transitively, runs
DependentsExecuteLater ==
    Called =>
        \A i \in 1 .. Len(log) : log[i].kind = "calc" =>
            \A d \in Members : log[i].c \in AllRequires(d) =>
                \E j \in (i + 1) .. Len(log) : log[j].kind = "calc" /\ log[j].c = d

\* C3, witness: a pass after the first, given a value of one calculator of the
\* pipeline other than the root: the root ran with its own values as they were, and
\* some calculator did not run
DependentRanUnchanged ==
    /\ Called /\ op.passed /\ nupd = 0
    /\ \E n \in DOMAIN op.args : n # Root /\ n \in Executed
    /\ Root \in Executed
    /\ Executed # Members

\* the cached value of a parameter of c differs before and after
OwnChanged(c) ==
    \E n \in (DOMAIN pvals[c]) \cap (DOMAIN pvals'[c]) : Differs(pvals[c][n], pvals'[c][n])

\* the calculators that declare a parameter given to the last call
Declaring(args) == { c \in Calcs : (DOMAIN args) \cap (DOMAIN rparams[c]) # {} }

\* C4: in a pass after the first, the calculation hook of a calculator runs only if a
\* cached value of its own parameters changed in value or type, or its flag was set
\* (before the pass, or by its initialization in the pass), or one of its requires ran
\* earlier in the pass; with no flag set and every calculator initialized, only the
\* calculators that declare a given parameter and the calculators that require them run
RunsOnlyForCause ==
    [][ (Called' /\ op'.passed) =>
          /\ \A i \in 1 .. Len(log') : log'[i].kind = "calc" =>
                \/ tocalc[log'[i].c]
                \/ \E j \in 1 .. (i - 1) : log'[j].kind = "init" /\ log'[j].c = log'[i].c
                \/ OwnChanged(log'[i].c)
                \/ \E j \in 1 .. (i - 1) : /\ log'[j].kind = "calc"
                                           /\ log'[j].c \in Range(Requires(log'[i].c))
          /\ (\A c \in Calcs : ~tocalc[c] /\ initialized[c]) =>
                ExecutedIn(log') \subseteq
                    Declaring(op'.args)
                    \cup { d \in Calcs : AllRequires(d) \cap Declaring(op'.args) # {} } ]_vars

\* C4, witness: a pass after the first, given no value, ran the hook of a calculator
\* whose flag had been set, and not the hook of every calculator
RanForFlag ==
    /\ Called /\ op.passed /\ nupd = 1
    /\ op.args = << >>
    /\ Executed # {}
    /\ Executed # Members

\* the operations on an InitConfig
ConfigOps ==
    { "setitem", "update", "delitem", "pop", "popitem", "setdefault", "clear", "args", "params" }

\* C5: after args or params of an InitConfig is assigned, or a keyed entry is set,
\* deleted, popped, defaulted, updated or all entries cleared, whether or not the
\* operation raised, the InitConfig is updated and its RuntimeInfo is not initialized
ConfigEditMarks ==
    op.kind \in ConfigOps => updated[op.c] /\ ~initialized[op.c]

\* C5, witness: an entry was deleted from the InitConfig of an initialized calculator
\* of a built pipeline
EditedInitialized ==
    /\ op.kind = "delitem" /\ op.init /\ op.member
    /\ err = "" /\ cfgData[op.c] = << >>

\* C6: after the configuration of a calculator of a built pipeline is updated, every
\* calculator that requires it, directly or transitively, is not initialized and has no pipeline
CascadeReachesDependents ==
    (op.kind = "update" /\ op.member) =>
        \A d \in Calcs : op.c \in AllRequires(d) => ~initialized[d] /\ ~pipeline[d].built
\* C7: after the configuration of a calculator D of a pipeline that has calculated is
\* updated, the next call of the root runs the initialization hook of D with the
\* updated configuration and the hooks of the calculators that require D, all of them
\* before any calculation hook, and then the calculation hook of every calculator
UpdateRerunsEverything ==
    [][ (op.kind = "update" /\ op.member /\ op.passed /\ op'.kind = "call") =>
          /\ err' = ""
          /\ \E i \in 1 .. Len(log') :
                log'[i] = Event("init", op.c, Get(cfgData[op.c], "z"), << >>)
          /\ \A d \in Calcs : op.c \in AllRequires(d) =>
                \E i \in 1 .. Len(log') : log'[i].kind = "init" /\ log'[i].c = d
          /\ \A i, j \in 1 .. Len(log') :
                log'[i].kind = "init" /\ log'[j].kind = "calc" => i < j
          /\ ExecutedIn(log') = Members' ]_vars

\* C8: after a new list of requires is assigned to a calculator of the root's built
\* pipeline, the root has no pipeline
RequiresAssignmentDropsPipeline ==
    (op.kind = "requires" /\ op.member) => ~pipeline[Root].built

\* the last operation ran the unification of the root's pipeline
Unified == (op.kind = "pipeline" /\ ~op.built) \/ op.kind = "setparams"

\* the parameters c declares to a unification with this override
Declared(c, override) == Clone(rparams[c], override)

\* two calculators declare the name n, varied, with different definitions
Conflict(override) ==
    \E c, d \in Calcs : \E n \in (DOMAIN rparams[c]) \cap (DOMAIN rparams[d]) :
        /\ ~Declared(c, override)[n].fixed
        /\ ~Declared(d, override)[n].fixed
        /\ Declared(c, override)[n] # Declared(d, override)[n]

\* the calculators that declare a name declare it with one definition, and the
\* override holds declared names only
Agreement(override) ==
    /\ \A c, d \in Calcs : \A n \in (DOMAIN rparams[c]) \cap (DOMAIN rparams[d]) :
          Declared(c, override)[n] = Declared(d, override)[n]
    /\ DOMAIN override \subseteq UNION { DOMAIN rparams[c] : c \in Calcs }

\* C9: a unification over calculators of which two declare a varied parameter of the
\* same name with different definitions raises PipelineError; a unification over
\* calculators that declare each name with one definition returns, and the unified
\* collection holds that definition under the name
ConflictRaises ==
    [][ Unified' =>
          /\ Conflict(op'.args) => err' = "PipelineError"
          /\ Agreement(op'.args) =>
                /\ err' = ""
                /\ \A c \in Calcs : \A n \in DOMAIN rparams[c] :
                      /\ n \in DOMAIN pipeline'[Root].params
                      /\ pipeline'[Root].params[n] = Declared(c, op'.args)[n] ]_vars

\* C9, witness: the build over two calculators that declare the shared name as varied
\* parameters with different priors has raised
ConflictRaised ==
    /\ op.kind = "pipeline" /\ err = "PipelineError" /\ ~pipeline[Root].built
    /\ \E c, d \in Calcs :
          /\ Shared \in (DOMAIN rparams[c]) \cap (DOMAIN rparams[d])
          /\ ~rparams[c][Shared].fixed /\ ~rparams[c][Shared].derived
          /\ ~rparams[d][Shared].fixed /\ ~rparams[d][Shared].derived
          /\ rparams[c][Shared].prior # rparams[d][Shared].prior

\* C10: after a unification that returned, every name a calculator of the pipeline
\* declares is in the unified collection, with the definition the calculator holds
OneSharedDefinition ==
    (Unified /\ err = "") =>
        \A c \in Members : \A n \in DOMAIN rparams[c] :
            /\ n \in DOMAIN pipeline[Root].params
            /\ pipeline[Root].params[n] = rparams[c][n]

\* the step op re-runs the unification: pipeline.params = override, or a read of the
\* collection (by params, varied_params or calculate) while it is marked updated
Reunifies(o) ==
    \/ o.kind = "setparams"
    \/ /\ o.kind \in { "readparams", "readvaried", "call" }
       /\ pipeline[Root].built /\ pipeline[Root].stale

\* the override of that unification: the supplied one, or the collection itself
OverrideOf(o) == IF o.kind = "setparams" THEN o.args ELSE pipeline[Root].params

\* the names the calculators of the pipeline declare
DeclaredNames == UNION { DOMAIN rparams[c] : c \in Members }

\* n is referenced by the dependency expression of a parameter that a calculator
\* declares to a unification with this override
ReferencedBy(n, override) ==
    \E c \in Members : \E m \in DOMAIN rparams[c] : n \in Declared(c, override)[m].depends

\* the override holds a name that no calculator declares and no expression references
Unattributable(override) ==
    \E n \in DOMAIN override : n \notin DeclaredNames /\ ~ReferencedBy(n, override)

\* C11: a unification whose override holds a parameter that no calculator declares
\* and that no parameter's dependency expression references raises PipelineError,
\* and no calculation hook runs in that step
UnattributableRaises ==
    [][ (Reunifies(op') /\ Unattributable(OverrideOf(op'))) =>
           /\ err' = "PipelineError"
           /\ ExecutedIn(log') = {} ]_vars

\* C11, witness: a call found the collection marked updated, with the name Ref in it
\* that no calculator declares or references, and raised before any hook
UnattributableRaised ==
    /\ op.kind = "call" /\ op.built /\ err = "PipelineError"
    /\ pipeline[Root].stale
    /\ Ref \in DOMAIN pipeline[Root].params
    /\ Ref \notin DeclaredNames
    /\ \A c \in Members : \A m \in DOMAIN rparams[c] : Ref \notin rparams[c][m].depends
    /\ ExecutedIn(log) = {}

\* every calculator that declares a name declares it, under this override, with the
\* definition of the calculators before it
SameDefinitions(override) ==
    \A c, d \in Members : \A n \in (DOMAIN rparams[c]) \cap (DOMAIN rparams[d]) :
        Declared(c, override)[n] = Declared(d, override)[n]

\* C12: in a unification, a parameter of the override that no calculator declares and
\* that a declared parameter's expression references is accepted (the unification
\* returns when the declarations agree, and the unified collection holds the supplied
\* definition); a parameter of the previous collection that no calculator declares and
\* that an expression still references is in the new collection, with its previous
\* definition unless the override redefines it
ReferencedBelongs ==
    [][ Reunifies(op') =>
          /\ ( /\ SameDefinitions(OverrideOf(op'))
               /\ \A n \in DOMAIN OverrideOf(op') :
                     n \in DeclaredNames \/ ReferencedBy(n, OverrideOf(op')) )
             => err' = ""
          /\ err' = "" =>
                /\ \A n \in DOMAIN OverrideOf(op') :
                      (n \notin DeclaredNames /\ ReferencedBy(n, OverrideOf(op'))) =>
                          /\ n \in DOMAIN pipeline'[Root].params
                          /\ pipeline'[Root].params[n] = OverrideOf(op')[n]
                /\ \A n \in DOMAIN pipeline[Root].params :
                      (n \notin DeclaredNames /\ ReferencedBy(n, OverrideOf(op'))) =>
                          /\ n \in DOMAIN pipeline'[Root].params
                          /\ n \notin DOMAIN OverrideOf(op') =>
                                pipeline'[Root].params[n] = pipeline[Root].params[n] ]_vars

\* C12, witness: pipeline.params = override, with an override that does not hold Ref,
\* has returned; no calculator declares Ref, one declares the expression of it, and
\* Ref is in the unified collection
ReferencedRetained ==
    /\ op.kind = "setparams" /\ err = ""
    /\ Ref \notin DOMAIN op.args
    /\ Ref \notin DeclaredNames
    /\ \E c \in Members : Shared \in DOMAIN rparams[c] /\ Ref \in rparams[c][Shared].depends
    /\ Ref \in DOMAIN pipeline[Root].params

\* C15: a read of params or of varied_params that finds the unified collection marked
\* updated, and returns, has re-run the unification: the mark is cleared, every
\* definition of the edited collection is in the collection read, and varied_params
\* is the varied and not derived subset of it
StaleReadReunifies ==
    [][ ( /\ op'.kind \in { "readparams", "readvaried" }
          /\ pipeline[Root].stale
          /\ err' = "" ) =>
            /\ ~pipeline'[Root].stale
            /\ \A n \in DOMAIN pipeline[Root].params :
                  /\ n \in DOMAIN pipeline'[Root].params
                  /\ pipeline'[Root].params[n] = pipeline[Root].params[n]
            /\ pipeline'[Root].varied = SelectVaried(pipeline'[Root].params) ]_vars

\* C15, witness: varied_params was read after the shared name, unified as a varied
\* parameter, was edited in place into an expression; the read returned and the
\* shared name is no longer among the varied parameters
StaleReadDone ==
    /\ op.kind = "readvaried" /\ op.stale /\ err = ""
    /\ Shared \in DOMAIN pipeline[Root].params
    /\ pipeline[Root].params[Shared] = ExprDef
    /\ \E c \in Members : Shared \in DOMAIN rparams[c]
    /\ pipeline[Root].varied = SelectVaried(pipeline[Root].params)
    /\ ~pipeline[Root].stale

\* the call op names a parameter that is not in the unified collection
NamesUnknown(o) ==
    /\ o.kind = "call" /\ o.built
    /\ \E n \in DOMAIN o.args : n \notin DOMAIN pipeline[Root].params

\* C13: a call of the pipeline with a name outside the unified collection raises
\* PipelineError, leaves the map of parameter values as it was and runs no
\* calculation hook, whatever the other names of the call
UnknownNameRaises ==
    [][ NamesUnknown(op') =>
          /\ err' = "PipelineError"
          /\ pipeline'[Root].param_values = pipeline[Root].param_values
          /\ ExecutedIn(log') = {} ]_vars

\* the same, for calls that find the unified collection not marked updated
UnknownNameRaisesFresh ==
    [][ (NamesUnknown(op') /\ ~pipeline[Root].stale) =>
          /\ err' = "PipelineError"
          /\ pipeline'[Root].param_values = pipeline[Root].param_values
          /\ ExecutedIn(log') = {} ]_vars

\* the positions of the log at which the calculation hook of c raised
RaisedAt(l, c) == { i \in 1 .. Len(l) : l[i].kind = "raise" /\ l[i].c = c }

\* the calculators after c in the flattened order s
After(s, c) == { s[j] : j \in { k \in 1 .. Len(s) : k > IndexOf(s, c) } }

\* C14: when the calculation hook of a calculator raises in a call, the call raises
\* PipelineError with the hook's exception as its cause, nothing runs after the
\* hook that raised, and no calculator later in the flattened order is invoked
HookErrorStops ==
    [][ (op'.kind = "callfail" /\ RaisedAt(log', op'.c) # {}) =>
          /\ err' = "PipelineError"
          /\ cause' = "HookError"
          /\ RaisedAt(log', op'.c) = { Len(log') }
          /\ After(pipeline'[Root].calculators, op'.c) \cap ExecutedIn(log') = {} ]_vars

\* C14, witness: the hook of a calculator that is neither first nor last in the
\* flattened order has raised, after the hook of an earlier calculator ran
HookErrorStopped ==
    /\ op.kind = "callfail" /\ err = "PipelineError" /\ cause = "HookError"
    /\ RaisedAt(log, op.c) # {}
    /\ After(pipeline[Root].calculators, op.c) # {}
    /\ ExecutedIn(log) # {}

\* the labels the participant r has given so far
Labels(r) == DOMAIN mpi.states[r]

\* C16: in mpicalculate the k-th local result of a participant is labelled k plus the
\* number of values of the participants of lower rank; the labels of two participants
\* are disjoint; once every participant has finished the labels are 0 .. N - 1; and
\* position i of the gathered result is the result for the i-th value of the array
MpiOrderKept ==
    mpi.phase \in { "run", "gathered" } =>
        /\ \A r \in 0 .. mpi.nranks - 1 :
              /\ Labels(r) = { k + SumBelow(mpi.sizes, r) : k \in 0 .. mpi.done[r] - 1 }
              /\ \A k \in 0 .. mpi.done[r] - 1 :
                    mpi.states[r][k + SumBelow(mpi.sizes, r)] = DerivedOf(mpi.local[r][k + 1])
        /\ \A r, q \in 0 .. mpi.nranks - 1 : r # q => Labels(r) \cap Labels(q) = {}
        /\ (\A r \in 0 .. mpi.nranks - 1 : mpi.done[r] = mpi.sizes[r]) =>
              UNION { Labels(r) : r \in 0 .. mpi.nranks - 1 } = 0 .. Len(mpi.array) - 1
        /\ mpi.phase = "gathered" =>
              /\ mpi.err = ""
              /\ mpi.derived = [ i \in 1 .. Len(mpi.array) |-> DerivedOf(mpi.array[i]) ]

\* C16, witness: three values that are not all the same were scattered over three
\* participants of which the first received none, and the results are gathered
MpiGathered ==
    /\ mpi.phase = "gathered"
    /\ mpi.nranks = MaxRanks /\ Len(mpi.array) = MaxSets
    /\ mpi.sizes[0] = 0 /\ mpi.sizes[1] > 0 /\ mpi.sizes[2] > 0
    /\ \E i, j \in 1 .. Len(mpi.array) : mpi.array[i] # mpi.array[j]

\* block_params has returned blocks
Scheduled == sched.kind = "blocks" /\ sched.err = ""

\* the position, in the returned blocks, of the block that holds the parameter n
BlockOf(n) == CHOOSE i \in 1 .. Len(sched.blocks) : n \in sched.blocks[i]

\* C17: when b requires a and another calculator requires b, and the parameters named
\* a and b are declared by a only and by b only, block_params without a block count
\* and with oversampling power 0 returns the two parameters in different blocks, the
\* block of a's parameter before the block of b's, whatever the positive speeds
UpstreamBlockFirst ==
    (Scheduled /\ sched.nblocks = 0) =>
        \A a, b, c \in Calcs :
            (a \in Range(Requires(b)) /\ b \in Range(Requires(c))) =>
                BlockOf(a) < BlockOf(b)

\* C17, witness: block_params without a block count has returned for the chain, with
\* speeds that are not all the same
ChainScheduled ==
    /\ Scheduled /\ sched.nblocks = 0
    /\ cfgCalcs = Chain
    /\ \E c, d \in Calcs : op.args[c] # op.args[d]
    /\ BlockOf(1) < BlockOf(2)

\* the calculators that declare the parameter n
DeclaringOf(n) == { c \in Members : n \in DOMAIN rparams[c] }

\* the calculators that require a calculator of S, directly or transitively
Dependents(S) == { d \in Members : AllRequires(d) \cap S # {} }

\* C18: the footprint block_params computes for a parameter is the set of the
\* calculators that declare it and of the calculators that depend on one of them;
\* the declaring calculators are in it
FootprintHoldsDeclaring ==
    sched.kind = "blocks" =>
        \A n \in sched.names :
            /\ sched.footprints[n] = DeclaringOf(n) \cup Dependents(DeclaringOf(n))
            /\ DeclaringOf(n) \subseteq sched.footprints[n]

\* the footprints are those of the dependents alone
FootprintIsDependents ==
    sched.kind = "blocks" =>
        \A n \in sched.names : sched.footprints[n] = Dependents(DeclaringOf(n))

\* C19: block_params with a block count N between 1 and the number of distinct
\* footprints has chosen N - 1 split points, so N groups; it returns one factor for
\* each returned block, and the blocks of one group have the same factor
SplitsIntoN ==
    (Scheduled /\ sched.nblocks >= 1) =>
        /\ Cardinality(sched.splits) = sched.nblocks - 1
        /\ { GroupOf(sched.splits, i) : i \in 1 .. Len(sched.blocks) } = 1 .. sched.nblocks
        /\ Len(sched.factors) = Len(sched.blocks)
        /\ \A i, j \in 1 .. Len(sched.blocks) :
              GroupOf(sched.splits, i) = GroupOf(sched.splits, j) =>
                  sched.factors[i] = sched.factors[j]

\* the same for block counts of 2 and more
SplitsIntoTwoOrMore ==
    (Scheduled /\ sched.nblocks >= 2) =>
        /\ Cardinality(sched.splits) = sched.nblocks - 1
        /\ { GroupOf(sched.splits, i) : i \in 1 .. Len(sched.blocks) } = 1 .. sched.nblocks
        /\ Len(sched.factors) = Len(sched.blocks)
        /\ \A i, j \in 1 .. Len(sched.blocks) :
              GroupOf(sched.splits, i) = GroupOf(sched.splits, j) =>
                  sched.factors[i] = sched.factors[j]

\* C20: block_params with a block count greater than the number of distinct
\* footprints of the parameters raises an error and returns no blocks
TooManyBlocksRaises ==
    ( /\ op.kind = "blocks"
      /\ sched.nblocks > Cardinality({ sched.footprints[n] : n \in sched.names }) ) =>
        /\ err = "ValueError"
        /\ sched.err = "ValueError"
        /\ sched.blocks = << >> /\ sched.factors = << >>

\* C20, witness: block_params was called with a block count one more than the number
\* of distinct footprints, which is more than one, and has raised
TooManyBlocksRaised ==
    /\ op.kind = "blocks" /\ err = "ValueError"
    /\ Cardinality({ sched.footprints[n] : n \in sched.names }) > 1
    /\ sched.nblocks = Cardinality({ sched.footprints[n] : n \in sched.names }) + 1

\* the calculators of the chain that declare the name n, under this override, in the
\* flattened order 1, ..., NCalc
DeclaringIn(n) == { c \in Calcs : n \in DOMAIN rparams[c] }
FirstDeclaring(n) == CHOOSE c \in DeclaringIn(n) : \A d \in DeclaringIn(n) : c <= d
LastDeclaring(n) == CHOOSE c \in DeclaringIn(n) : \A d \in DeclaringIn(n) : d <= c

\* the definition is derived and fixed
DerivedFixed(p) == p.derived /\ p.fixed

\* every calculator after the first that declares the shared name declares it derived
\* and fixed, and at least one does
DuplicatesDerivedFixed(override) ==
    /\ Cardinality(DeclaringIn(Shared)) >= 2
    /\ \A d \in DeclaringIn(Shared) \ { FirstDeclaring(Shared) } :
          DerivedFixed(Declared(d, override)[Shared])

\* C21: a unification in which the calculators after the first that declare a name
\* declare it derived and fixed raises no error, and the unified collection holds the
\* definition of the first (the earlier) calculator under the name
DuplicateDerivedKeepsEarlier ==
    [][ (Unified' /\ DuplicatesDerivedFixed(op'.args)) =>
          /\ err' = ""
          /\ pipeline'[Root].params[Shared]
                = Declared(FirstDeclaring(Shared), op'.args)[Shared] ]_vars

\* the same unification raises no error, and the unified collection holds the
\* definition of the last calculator that declares the name
DuplicateDerivedKeepsLater ==
    [][ (Unified' /\ DuplicatesDerivedFixed(op'.args)) =>
          /\ err' = ""
          /\ pipeline'[Root].params[Shared]
                = Declared(LastDeclaring(Shared), op'.args)[Shared] ]_vars

\* two calculators declare the shared name with unequal definitions that are not both
\* derived and fixed
MixedDuplicate(override) ==
    \E c, d \in DeclaringIn(Shared) :
        /\ c < d
        /\ Declared(c, override)[Shared] # Declared(d, override)[Shared]
        /\ ~(DerivedFixed(Declared(c, override)[Shared])
             /\ DerivedFixed(Declared(d, override)[Shared]))

\* C22: a unification over calculators of which two declare a name with unequal
\* definitions, not both of them derived and fixed, raises PipelineError
MixedDuplicateRaises ==
    [][ (Unified' /\ MixedDuplicate(op'.args)) => err' = "PipelineError" ]_vars

\* a calculator declares the shared name with a definition that is not derived and
\* fixed and differs from that of the calculator that declares the name before it
LaterNotDerivedFixed(override) ==
    \E c, d \in DeclaringIn(Shared) :
        /\ c < d /\ \A e \in DeclaringIn(Shared) : ~(c < e /\ e < d)
        /\ Declared(c, override)[Shared] # Declared(d, override)[Shared]
        /\ ~DerivedFixed(Declared(d, override)[Shared])

\* the same, where the later of the two definitions is the one not derived and fixed
LaterNotDerivedFixedRaises ==
    [][ (Unified' /\ LaterNotDerivedFixed(op'.args)) => err' = "PipelineError" ]_vars

\* the values the pipeline holds for the input parameters of the calculator c
HeldFor(c) == [ n \in DOMAIN pvals[c] |-> pipeline[Root].param_values[n] ]

\* C23: after a call that returned, the calculation hook of every calculator of the
\* pipeline has last run with the values the pipeline holds for the calculator's
\* input parameters, whatever calls and assignments of pipeline.params came before
LastRunIsCurrent ==
    Called => \A c \in Members : ran[c] = << HeldFor(c) >>

\* the same for the calls that no assignment of pipeline.params precedes
LastRunIsCurrentUnassigned ==
    (Called /\ nupd = 0) => \A c \in Members : ran[c] = << HeldFor(c) >>

\* the calculators that were due in the pass that the hook of x ended and had not run:
\* x, the calculators that require x, and the calculators after x of which the flag
\* is set or a cached value differs from the value given
LeftDue(x, args) ==
    {x}
    \cup { d \in Members : x \in AllRequires(d) }
    \cup { d \in After(pipeline[Root].calculators, x) :
             \/ tocalc[d]
             \/ \E n \in (DOMAIN args) \cap (DOMAIN pvals[d]) : Differs(pvals[d][n], args[n]) }

\* C24: the call that follows, with the same values, a call in which the calculation
\* hook of a calculator raised runs the hook of that calculator and of every
\* calculator that was due and had not run
FailedPassIsRetried ==
    [][ ( /\ op.kind = "callfail" /\ RaisedAt(log, op.c) # {}
          /\ op'.kind = "call" /\ op'.args = op.args ) =>
            LeftDue(op.c, op.args) \subseteq ExecutedIn(log') ]_vars

\* the same, where the own flag of the calculator of which the hook raised is set
FlaggedPassIsRetried ==
    [][ ( /\ op.kind = "callfail" /\ RaisedAt(log, op.c) # {}
          /\ tocalc[op.c]
          /\ op'.kind = "call" /\ op'.args = op.args ) =>
            LeftDue(op.c, op.args) \subseteq ExecutedIn(log') ]_vars

\* C25: after a pipeline is built, for all calculators c and d of the pipeline, d is
\* among the requires of c if and only if c is in the required_by of d
RequiredByMirrorsRequires ==
    Built =>
        \A c, d \in Members : d \in Range(Requires(c)) <=> c \in required_by[d]

\* one direction of it: a calculator in the required_by of d requires d
RequiredByWithinRequires ==
    Built =>
        \A c, d \in Members : c \in required_by[d] => d \in Range(Requires(c))

\* C26: when the construction of a pipeline returns, every calculator of the
\* flattened list is initialized and has its own dirty flag set; a call that follows
\* the construction runs the calculation hook of every calculator
BuiltInitializedAndDirty ==
    /\ []((Built /\ op.kind = "pipeline") => \A c \in Members : initialized[c] /\ tocalc[c])
    /\ [][ (Built /\ op.kind = "pipeline" /\ op'.kind = "call") =>
              (err' = "" /\ ExecutedIn(log') = Members') ]_vars

\* C26, witness: a construction has returned in which the hook of a calculator updated
\* the configuration of a calculator initialized before it, which the walk
\* initialized again
BuiltAfterDeinitialization ==
    /\ Built /\ op.kind = "pipeline"
    /\ \E c \in Members : \E d \in touch[c] :
          \E i, j, k \in 1 .. Len(log) :
              /\ i < j /\ j < k
              /\ log[i].kind = "init" /\ log[i].c = d
              /\ log[j].kind = "init" /\ log[j].c = c
              /\ log[k].kind = "init" /\ log[k].c = d

\* C27: the flattened list of a pipeline that was just built holds no calculator
\* twice, and holds the root and the calculators the root requires, directly or
\* transitively, and no other
ListIsReachableOnce ==
    Built =>
        /\ \A i, j \in 1 .. Len(pipeline[op.c].calculators) :
              pipeline[op.c].calculators[i] = pipeline[op.c].calculators[j] => i = j
        /\ Range(pipeline[op.c].calculators) = {op.c} \cup AllRequires(op.c)

\* C27, witness: a pipeline was rebuilt after the requires of the root were assigned;
\* a calculator is out of the root's reach, and the root requires a calculator and
\* also a calculator that requires it, so that the walk meets it twice
RebuiltOverFewer ==
    /\ Built /\ nupd = 1
    /\ {Root} \cup AllRequires(Root) # Calcs
    /\ \E c, e \in Calcs :
          /\ c \in Range(Requires(Root)) /\ e \in Range(Requires(Root))
          /\ e \in Range(Requires(c))

\* how often the last operation ran the initialization hook of c
InitCount(l, c) == Cardinality({ i \in 1 .. Len(l) : l[i].kind = "init" /\ l[i].c = c })

\* the calculators of which the initialization hook updates the configuration of
\* another calculator
Touching == { d \in Calcs : touch[d] # {} }

\* C28: the construction of a pipeline ends, having run the initialization hook of each
\* calculator at most once, and once more for each calculator whose hook
\* de-initializes others; once it has returned, the next access or call runs no
\* initialization hook and keeps the pipeline: nothing retriggers the construction
ConstructionEnds ==
    /\ []((op.kind \in { "pipeline", "call" } /\ ~op.built) =>
              \A c \in Calcs : InitCount(log, c) <= 1 + Cardinality(Touching))
    /\ [][ (Built /\ op.kind = "pipeline" /\ op'.kind \in { "pipeline", "call" }) =>
              /\ \A c \in Calcs : InitCount(log', c) = 0
              /\ pipeline'[Root].built
              /\ pipeline'[Root].calculators = pipeline[Root].calculators ]_vars

\* C28, witness: a construction that followed an update of a configuration from
\* outside has returned, and ran the initialization hook of a calculator twice
RebuiltWithHookTwice ==
    /\ Built /\ op.kind = "pipeline" /\ nupd >= 1
    /\ \E c \in Calcs : InitCount(log, c) = 2

\* C29: initialize() of a calculator that is initialized does nothing: it runs no hook and
\* leaves requires, required_by, the parameters and every other field of every calculator
\* as they were; initialize() of a calculator that is not initialized runs its
\* initialization hook exactly once and leaves it initialized, so that any number of
\* calls in a row runs the hook once
InitializeIsIdempotent ==
    [][ /\ (op'.kind = "initialize" /\ op'.init) =>
              /\ log' = << >> /\ err' = ""
              /\ UNCHANGED << cfgArgs, cfgData, updated, initParams, heldZ, held, initialized,
                              reqKnown, requires, required_by, tocalc, calculated, rparams,
                              pvals, dcache, speed, pipeline >>
        /\ (op'.kind = "initialize" /\ ~op'.init /\ err' = "") =>
              /\ InitCount(log', op'.c) = 1
              /\ initialized'[op'.c] ]_vars

\* C29, witness: initialize() was called on an initialized calculator that has
\* requirements and is the requirement of another
InitializedAgain ==
    /\ op.kind = "initialize" /\ op.init
    /\ requires[op.c] # << >>
    /\ required_by[op.c] # {}

\* the collection the hook of c leaves behind when it starts from the collection coll
EditedBy(c, coll) ==
    IF paramEdit[c] = "select" THEN << >>
    ELSE [ n \in DOMAIN coll |-> [ coll[n] EXCEPT !.fixed = @ \/ paramEdit[c] = "fix" ] ]

InitializedIsNotUpdated ==
    /\ [](\A c \in Calcs : initialized[c] => ~updated[c])
    /\ [][ /\ op'.kind = "settrue" => (initialized'[op'.c] /\ ~updated'[op'.c])
           /\ op'.kind = "update" => (updated'[op'.c] /\ ~initialized'[op'.c]) ]_vars

\* C31, witness: the configuration of a calculator was updated and the calculator then
\* marked initialized by assignment, while another calculator is still to be initialized
MarkedInitializedAfterUpdate ==
    /\ op.kind = "settrue" /\ ~op.init
    /\ nupd = 1
    /\ initialized[op.c] /\ ~updated[op.c]
    /\ \E d \in Calcs : updated[d] /\ ~initialized[d]

\* the derived outputs that the RuntimeInfo of c holds (none while _derived is None)
CachedOf(c) == IF dcache[c] = << >> THEN << >> ELSE dcache[c][1]

\* the calculators of the root's pipeline that hold an output of name n
Holders(n) == { c \in Members : n \in DOMAIN CachedOf(c) }

\* the calculator among those of S that is the last in the flattened order
LastOf(S) ==
    CHOOSE c \in S : \A d \in S : IndexOf(pipeline[Root].calculators, d)
                                     <= IndexOf(pipeline[Root].calculators, c)

\* C32: after a call that returned, BasePipeline.derived holds every derived output of
\* every calculator of the pipeline: those of a calculator whose hook ran in the call are
\* its derived parameters, read from this execution, those of a calculator that was
\* skipped are its cached outputs; it holds nothing else, and an output that several
\* calculators hold is that of the last of them in the flattened order
DerivedHoldsEveryOutput ==
    Called =>
        /\ \A c \in Members : /\ dcache[c] # << >>
                              /\ DOMAIN CachedOf(c) \subseteq DOMAIN pipeline[Root].outputs
        /\ \A c \in Executed : CachedOf(c) = [ n \in DerivedNames(rparams[c]) |-> Output(c, ran[c]) ]
        /\ \A n \in DOMAIN pipeline[Root].outputs :
              /\ Holders(n) # {}
              /\ pipeline[Root].outputs[n] = CachedOf(LastOf(Holders(n)))[n]

\* C32, witness: a call has returned in which the hook of a calculator ran and a
\* calculator later in the flattened order was skipped; both hold the derived output of
\* the same name, and the collection holds that of the skipped one
SkippedLaterWins ==
    /\ Called /\ ncall = 2
    /\ \E c \in Executed : \E d \in Members \ Executed :
          /\ IndexOf(pipeline[Root].calculators, c) < IndexOf(pipeline[Root].calculators, d)
          /\ Out \in DOMAIN CachedOf(c) /\ Out \in DOMAIN CachedOf(d)
          /\ pipeline[Root].outputs[Out].by = d

\* the calculators whose calculation hook the operation just done has run to its end
ExecutedNow == ExecutedIn(log')

\* C33: a call discards the cached derived outputs of each calculator whose calculation
\* hook runs, so that they are read anew from that execution, and keeps those of each
\* calculator it skips or whose hook raises; in every state the derived outputs that a
\* RuntimeInfo holds were read from the last execution of the calculator that returned
DerivedIsOfLastExecution ==
    /\ [](\A c \in Calcs : \A n \in DOMAIN CachedOf(c) : CachedOf(c)[n] = Output(c, ran[c]))
    /\ [][ op'.kind \in { "call", "callfail" } =>
              /\ \A c \in ExecutedNow :
                    dcache'[c] = << [ n \in DerivedNames(rparams'[c]) |-> Output(c, << pvals'[c] >>) ] >>
              /\ \A c \in Members' \ ExecutedNow :
                    initialized[c] => dcache'[c] = dcache[c] ]_vars

\* C33, witness: a second call has returned in which the hook of a calculator that
\* declares the derived output ran with a value other than that of its first execution,
\* and another calculator that declares it was skipped
ReadAnewAndKept ==
    /\ Called /\ op.built /\ op.passed /\ ncall = 2 /\ nupd = 0
    /\ \E c \in Executed : /\ Out \in DOMAIN CachedOf(c)
                           /\ op.args # << >> /\ ran[c] = << pvals[c] >>
                           /\ \E n \in DOMAIN op.args : n = c /\ op.args[n].v # 0
    /\ \E d \in Members \ Executed : Out \in DOMAIN CachedOf(d)

\* C34: a call on a pipeline that exists merges the values it is given into the values
\* the pipeline holds: a parameter that the call does not supply keeps the value that the
\* pipeline held for it, which is the value last supplied and not the declared one; the
\* calculators are given the merged values; an assignment of pipeline.params, which
\* runs the unification again, puts back the declared values
CallMergesValues ==
    [][ /\ (Called' /\ op'.built) =>
              /\ pipeline'[Root].param_values = Merge(pipeline[Root].param_values, op'.args)
              /\ \A c \in Members' : \A n \in DOMAIN pvals'[c] :
                    pvals'[c][n] = pipeline'[Root].param_values[n]
        /\ (op'.kind = "setparams" /\ err' = "") =>
              pipeline'[Root].param_values =
                  [ n \in DOMAIN pipeline'[Root].params |-> pipeline'[Root].params[n].value ] ]_vars

\* C34, witness: the second of two calls has returned; it supplied a value for one
\* parameter, and the pipeline still holds for another parameter the value that the first
\* call supplied, which is not the declared one
EarlierValueKept ==
    /\ Called /\ op.built /\ op.passed /\ ncall = 2 /\ nupd = 0
    /\ op.args # << >>
    /\ \E m \in DOMAIN pipeline[Root].param_values :
          /\ m \notin DOMAIN op.args
          /\ pipeline[Root].param_values[m] # pipeline[Root].params[m].value
          /\ \E c \in Members : m \in DOMAIN pvals[c] /\ ran[c] = << pvals[c] >>
                                /\ pvals[c][m] = pipeline[Root].param_values[m]

\* the supplied names for which the calculator of the last operation holds a value
KnownSupplied == (DOMAIN op.args) \cap (DOMAIN pvals[op.c])

\* C35: set_param_values(values, force=True) on a calculator of the pipeline leaves the
\* calculator due, whatever the values, and the next call runs its calculation hook
ForcedIsDue ==
    /\ [](op.kind = "force" => tocalc[op.c])
    /\ [][ (op.kind = "force" /\ Called') => op.c \in ExecutedIn(log') ]_vars

\* C35, as the code has it: the calculator is left due, and the next call runs its hook,
\* when it holds a value for one of the supplied names, also when the supplied value
\* equals the cached one
ForcedKnownNameIsDue ==
    /\ [](op.kind = "force" /\ KnownSupplied # {} => tocalc[op.c])
    /\ [][ (op.kind = "force" /\ KnownSupplied # {} /\ Called') => op.c \in ExecutedIn(log') ]_vars

\* the attributes of the RuntimeInfo of c are those that RuntimeInfo.__init__ sets
FreshRuntime(c) ==
    /\ ~initialized[c] /\ tocalc[c] /\ ~calculated[c]
    /\ speed[c] = 0
    /\ required_by[c] = {}
    /\ ~reqKnown[c] /\ requires[c] = << >>
    /\ pipeline[c] = NoPipeline
    /\ dcache[c] = << >>
    /\ rparams[c] = initParams[c]
    /\ pvals[c] = [ n \in Inputs(initParams[c]) |-> initParams[c][n].value ]

\* C36: clear() leaves the RuntimeInfo as __init__ makes it: not initialized, due, not
\* calculated, speed None, required_by empty, requires not set, no pipeline, no cached
\* derived outputs, the parameters of the InitConfig and their values; it keeps the
\* InitConfig, updated flag included, and the calculator, and changes no attribute of
\* the RuntimeInfo of another calculator
ClearResetsRuntime ==
    [][ \A c \in Calcs : (op'.kind = "clearinfo" /\ op'.c = c) =>
          /\ FreshRuntime(c)'
          /\ UNCHANGED << cfgArgs, cfgData, initParams, updated, held, heldZ >>
          /\ \A d \in Calcs \ {c} :
                /\ initialized'[d] = initialized[d] /\ tocalc'[d] = tocalc[d]
                /\ calculated'[d] = calculated[d] /\ speed'[d] = speed[d]
                /\ required_by'[d] = required_by[d] /\ requires'[d] = requires[d]
                /\ reqKnown'[d] = reqKnown[d] /\ pipeline'[d] = pipeline[d]
                /\ dcache'[d] = dcache[d] /\ rparams'[d] = rparams[d] /\ pvals'[d] = pvals[d] ]_vars

\* C36, witness: clear() was called on a calculator of a pipeline that had calculated,
\* after its speed was set; the calculator had run, was initialized and is still among
\* the requires of another calculator
ClearedAfterCalculation ==
    /\ op.kind = "clearinfo" /\ op.init /\ op.member /\ op.passed /\ op.c # Root
    /\ nupd = 1 /\ ran[op.c] # << >>
    /\ FreshRuntime(op.c)
    /\ \E d \in Calcs : op.c \in Range(requires[d]) /\ initialized[d]


\* C37: an assignment to pipeline.params that fails leaves the unified collection, the
\* varied subset, the value map and the parameters of every calculator as they were
FailedAssignmentKeepsEverything ==
    [][ (op'.kind = "setparams" /\ err' # "") =>
          /\ pipeline'[Root] = pipeline[Root]
          /\ rparams' = rparams ]_vars

\* what the code keeps when the assignment fails: the pipeline's own collection, varied
\* subset and value map
FailedAssignmentKeepsPipeline ==
    [][ (op'.kind = "setparams" /\ err' # "") =>
          /\ pipeline'[Root].params = pipeline[Root].params
          /\ pipeline'[Root].varied = pipeline[Root].varied
          /\ pipeline'[Root].param_values = pipeline[Root].param_values ]_vars


MpiCalculateKeepsComm ==
    [][ (op'.kind = "mpicalculate") =>
          /\ mpi'.mpicomm = mpi.mpicomm
          /\ mpi'.more_derived = mpi.more_derived ]_vars

\* the same for the calls that return: a batch that was calculated, or an empty one
MpiCalculateReturnedKeepsComm ==
    [][ (op'.kind = "mpicalculate" /\ err' = "") =>
          /\ mpi'.mpicomm = mpi.mpicomm
          /\ mpi'.more_derived = mpi.more_derived ]_vars
====
